---- MODULE Spec2Model ----
(***************************************************************************)
(* Sync coordinator of the warehouse inventory dashboard: the cron         *)
(* callback with its single-flight flag, executeSyncJob with its retry     *)
(* loop, the phase pipeline of executeSyncPhases raced against the         *)
(* per-attempt timeout, the key/value cache (prisma.dataCache) and the     *)
(* job history (prisma.syncLog).                                           *)
(*                                                                         *)
(* Time is counted in minutes.  A timer is the time elapsed since it was   *)
(* armed; Tick moves time to the next instant at which a timer or the      *)
(* stale-lock threshold is reached.                                        *)
(***************************************************************************)
EXTENDS Integers, FiniteSets, Sequences, TLC

\* ---------------------------------------------------------------- bounds
\* Number of executeSyncJob invocations a behaviour may contain.
MaxJobs == 2
\* Number of POST requests to the manual sync endpoint a behaviour may contain.
MaxPosts == 2

\* ------------------------------------------------------ program constants
\* scheduler.ts: minutes
JOB_TIMEOUT == 15
RETRY_DELAY == 2
MAX_RETRIES == 3
STALE_LOCK == 20

Jobs == 1..MaxJobs
Posts == 1..MaxPosts

\* The three cache domains a sync job touches (one sales key: the configured
\* start date and branch; the warehouse-stock key; the PO key of that branch).
SalesKey == "sales-cache"
WH_STOCK_CACHE_KEY == "warehouse-stock-cache"
PO_CACHE_KEY_PREFIX == "po-outstanding-cache"
Keys == {SalesKey, WH_STOCK_CACHE_KEY, PO_CACHE_KEY_PREFIX}

\* Positions of executeSyncJob.  The phase positions are the stages of
\* executeSyncPhases: the invoice listing; the detail fetch and aggregation of
\* fetchAllSalesData; the inventory and warehouse-stock fetch; the PO fetch.
\* The commit positions are the two cache writes of executeSyncJob.
PhasePcs == {"listing", "details", "warehouseStock", "poOutstanding"}
CommitPcs == {"saveSales", "saveWarehouse"}

VARIABLES
    cronTask,             \* a cron task is registered (cronTask !== null)
    schedulerInitialized,
    isRunning,            \* the single-flight flag
    staleDuration,        \* Date.now() - isRunningTimestamp, saturated above STALE_LOCK
    trigger,              \* job -> "none" | "scheduled" | "manual"
    pc,                   \* job -> position in executeSyncJob
    attempt,              \* job -> loop variable of the retry loop
    timer,                \* job -> minutes since the attempt timeout / retry delay was armed
    lastError,            \* job -> last caught error
    abandoned,            \* job -> pipelines left running by timed out attempts
    syncLog,              \* job -> its row of prisma.syncLog
    cache,                \* key -> row of prisma.dataCache
    syncState,            \* syncState.status of the manual sync endpoint
    postPc,               \* POST request -> position in the manual sync endpoint
    readerPc,             \* position of a request to the inventory endpoint
    readSales,            \* what its loadSalesCache returned
    readWh,               \* what its loadWarehouseStockCache returned
    lib                   \* a library function under examination: its environment,
                          \* its arguments, its position and its result

vars == <<cronTask, schedulerInitialized, isRunning, staleDuration,
          trigger, pc, attempt, timer, lastError, abandoned, syncLog, cache,
          syncState, postPc, readerPc, readSales, readWh, lib>>

schedVars == <<cronTask, schedulerInitialized>>
flagVars == <<isRunning, staleDuration>>
routeVars == <<syncState, postPc>>
readerVars == <<readerPc, readSales, readWh>>
jobVars == <<trigger, pc, attempt, timer, lastError, abandoned, syncLog>>

\* ------------------------------------------------------------------ cache
\* A row records who wrote (or deleted) it last: 0 is the data present before
\* any sync of the behaviour, j > 0 is job j.  The payload a job writes is the
\* aggregate it holds in memory, identified by the job.
Missing == -1
OldEntry == [writer |-> 0, present |-> TRUE]

\* prisma.dataCache.findUnique as the load functions use it
Get(c, k) == IF c[k].present THEN c[k].writer ELSE Missing

\* prisma.dataCache.upsert: create if absent, overwrite if present
Put(c, k, w) == [c EXCEPT ![k] = [writer |-> w, present |-> TRUE]]

\* prisma.dataCache.delete
Delete(c, k, w) == [c EXCEPT ![k] = [writer |-> w, present |-> FALSE]]

\* A store call may fail; the save functions catch and log the failure.
TryPut(c, k, w, ok) == IF ok THEN Put(c, k, w) ELSE c

\* ---------------------------------------------------------- fetchAllSalesData
\* The skipCacheOps argument executeSyncPhases passes (force is true).
SkipCacheOpsMutant == FALSE

SkipCacheOps == TRUE

\* Entry of fetchAllSalesData(fromDate, force = true, branchId, skipCacheOps):
\* a force sync that manages the cache itself clears the entry first.
SalesCacheOnEntry(c, w, skip) == IF skip THEN c ELSE Delete(c, SalesKey, w)

\* Step 6 of fetchAllSalesData: the aggregate is cached unless skipCacheOps.
SalesCacheOnExit(c, w, skip, ok) == IF skip THEN c ELSE TryPut(c, SalesKey, w, ok)

\* ------------------------------------------------------------------ log
\* A row of prisma.syncLog: status and message ("NONE": no row yet).
NoRecord == [status |-> "NONE", message |-> "null"]
NoError == [kind |-> "none", attempt |-> 0]

\* createLogEntry: a row in status RUNNING with a null message
CreateLogRow == [status |-> "RUNNING", message |-> "null"]

\* updateLogEntry(id, status, message).  The log store is taken to accept its
\* writes (a rejected write is caught and leaves the row as it was).
UpdateLogEntry(log, j, status, message) ==
    [log EXCEPT ![j] = [status |-> status, message |-> message]]

\* `Attempt ${attempt}/${MAX_RETRIES}`
RetryMessage(a) == IF a = 2 THEN "Attempt 2/3" ELSE "Attempt 3/3"

\* `${lastError?.message || 'Unknown error'} (after 3 attempts ...)`
FailedMessage(err) == IF err = NoError THEN "Unknown error" ELSE err.kind

\* ------------------------------------------------------------------ Init
\* no library function is under examination
NoLib == [fn |-> "none"]

\* the process after start-up: no scheduler, no job, no request
AtRest ==
    /\ cronTask = FALSE
    /\ schedulerInitialized = FALSE
    /\ isRunning = FALSE
    /\ staleDuration = STALE_LOCK + 1
    /\ trigger = [j \in Jobs |-> "none"]
    /\ pc = [j \in Jobs |-> "idle"]
    /\ attempt = [j \in Jobs |-> 0]
    /\ timer = [j \in Jobs |-> 0]
    /\ lastError = [j \in Jobs |-> NoError]
    /\ abandoned = [j \in Jobs |-> 0]
    /\ syncLog = [j \in Jobs |-> NoRecord]
    /\ cache = [k \in Keys |-> OldEntry]
    /\ syncState = "idle"
    /\ postPc = [p \in Posts |-> "none"]
    /\ readerPc = "idle"
    /\ readSales = Missing
    /\ readWh = Missing

Init == AtRest /\ lib = NoLib

\* everything but lib
processVars == <<schedVars, flagVars, jobVars, cache, routeVars, readerVars>>

\* ------------------------------------------------------------ scheduler
\* startScheduler: registers the cron task when the stored config is enabled
\* (and its expression valid); a second call is ignored once a task exists.
StartScheduler ==
    /\ ~(schedulerInitialized /\ cronTask)
    /\ schedulerInitialized' = TRUE
    /\ \E enabled \in BOOLEAN : cronTask' = IF enabled THEN TRUE ELSE cronTask
    /\ UNCHANGED <<flagVars, trigger, pc, attempt, timer, lastError, abandoned,
                   syncLog, cache>>
    /\ UNCHANGED <<routeVars, readerVars, lib>>

\* -------------------------------------------------------- executeSyncJob
\* attemptSync starts executeSyncPhases, which runs into fetchAllSalesData.
StartAttempt(j) ==
    /\ pc' = [pc EXCEPT ![j] = "listing"]
    /\ timer' = [timer EXCEPT ![j] = 0]
    /\ cache' = SalesCacheOnEntry(cache, j, SkipCacheOps)

\* executeSyncJob(how) up to the first phase: createLogEntry, then the first
\* iteration of the retry loop.
StartJob(j, how) ==
    /\ trigger' = [trigger EXCEPT ![j] = how]
    /\ syncLog' = [syncLog EXCEPT ![j] = CreateLogRow]
    /\ attempt' = [attempt EXCEPT ![j] = 1]
    /\ StartAttempt(j)

IdleJobs == {j \in Jobs : pc[j] = "idle"}
NextJob == CHOOSE j \in IdleJobs : \A i \in IdleJobs : j <= i

\* staleDuration > STALE_LOCK_MS
IsStaleMutant(d) == d >= STALE_LOCK

IsStale(d) == d > STALE_LOCK

\* The cron callback: skip while a run holds the flag, unless the flag is stale.
CronFire ==
    /\ cronTask
    /\ IF isRunning /\ ~IsStale(staleDuration)
       THEN UNCHANGED <<flagVars, trigger, pc, attempt, timer, syncLog, cache>>
       ELSE /\ IdleJobs # {}
            /\ isRunning' = TRUE
            /\ staleDuration' = 0
            /\ StartJob(NextJob, "scheduled")
    /\ UNCHANGED <<schedVars, lastError, abandoned>>
    /\ UNCHANGED <<routeVars, readerVars, lib>>

\* finally { isRunning = false; isRunningTimestamp = 0 } of the cron callback;
\* a manually triggered job never touches the flag.
FlagAfterJobMutant(how, flag, failed) == IF how = "scheduled" /\ ~failed THEN FALSE ELSE flag

FlagAfterJob(how, flag, failed) == IF how = "scheduled" THEN FALSE ELSE flag

\* executeSyncJob returns (its locals are gone) and the caller's cleanup runs.
EndJob(j, failed) ==
    /\ pc' = [pc EXCEPT ![j] = "done"]
    /\ attempt' = [attempt EXCEPT ![j] = 0]
    /\ lastError' = [lastError EXCEPT ![j] = NoError]
    /\ timer' = [timer EXCEPT ![j] = 0]
    /\ isRunning' = FlagAfterJob(trigger[j], isRunning, failed)
    /\ staleDuration' = IF trigger[j] = "scheduled" /\ ~isRunning'
                        THEN STALE_LOCK + 1 ELSE staleDuration

\* for (attempt = 1; attempt <= MAX_RETRIES; attempt++)
LoopConditionMutant(a) == a <= MAX_RETRIES + 1

LoopCondition(a) == a <= MAX_RETRIES

\* if (attempt < MAX_RETRIES) wait RETRY_DELAY_MS
ShouldDelay(a) == a < MAX_RETRIES

\* status written at the start of attempts 2 and 3
RetryingStatusMutant == "FAILED"

RetryingStatus == "RETRYING"

\* attempt++ and the loop test.  Another iteration marks the row RETRYING and
\* starts the next attempt; after the loop the row is marked FAILED with the
\* last error and the job returns.
NextIteration(j, err) ==
    IF LoopCondition(attempt[j] + 1)
    THEN /\ attempt' = [attempt EXCEPT ![j] = attempt[j] + 1]
         /\ syncLog' = UpdateLogEntry(syncLog, j, RetryingStatus,
                                      RetryMessage(attempt[j] + 1))
         /\ lastError' = [lastError EXCEPT ![j] = err]
         /\ StartAttempt(j)
         /\ UNCHANGED flagVars
    ELSE /\ syncLog' = UpdateLogEntry(syncLog, j, "FAILED", FailedMessage(err))
         /\ EndJob(j, TRUE)
         /\ UNCHANGED cache

\* catch (err) { lastError = err; ... } of the retry loop
Catch(j, kind) ==
    LET err == [kind |-> kind, attempt |-> attempt[j]] IN
    IF ShouldDelay(attempt[j])
    THEN /\ lastError' = [lastError EXCEPT ![j] = err]
         /\ timer' = [timer EXCEPT ![j] = 0]
         /\ pc' = [pc EXCEPT ![j] = "delay"]
         /\ UNCHANGED <<attempt, syncLog, flagVars, cache>>
    ELSE NextIteration(j, err)

stepFrame == <<schedVars, flagVars, trigger, syncLog, attempt, timer, lastError>>

\* fetchInvoiceList returns (it catches its own errors: a partial list)
ListingDone(j) ==
    /\ pc[j] = "listing"
    /\ pc' = [pc EXCEPT ![j] = "details"]
    /\ UNCHANGED <<stepFrame, abandoned, cache>>
    /\ UNCHANGED <<routeVars, readerVars, lib>>

\* fetchDetailsInBatch returns (failed details are dropped, never thrown), the
\* aggregation loop ends and fetchAllSalesData returns
DetailsDone(j) ==
    /\ pc[j] = "details"
    /\ pc' = [pc EXCEPT ![j] = "warehouseStock"]
    /\ \E ok \in BOOLEAN : cache' = SalesCacheOnExit(cache, j, SkipCacheOps, ok)
    /\ UNCHANGED <<stepFrame, abandoned>>
    /\ UNCHANGED <<routeVars, readerVars, lib>>

\* the aggregation loop throws (a record without transDate)
AggregateThrow(j) ==
    /\ pc[j] = "details"
    /\ Catch(j, "throw")
    /\ UNCHANGED <<schedVars, trigger, abandoned>>
    /\ UNCHANGED <<routeVars, readerVars, lib>>

\* fetchAllInventory and fetchWarehouseStock return
WarehouseStockDone(j) ==
    /\ pc[j] = "warehouseStock"
    /\ pc' = [pc EXCEPT ![j] = "poOutstanding"]
    /\ UNCHANGED <<stepFrame, abandoned, cache>>
    /\ UNCHANGED <<routeVars, readerVars, lib>>

\* fetchInventory rethrows a failed page request
InventoryThrow(j) ==
    /\ pc[j] = "warehouseStock"
    /\ Catch(j, "throw")
    /\ UNCHANGED <<schedVars, trigger, abandoned>>
    /\ UNCHANGED <<routeVars, readerVars, lib>>

\* fetchAllPOOutstanding(force = true) returns: it has saved the PO cache itself
PODone(j) ==
    /\ pc[j] = "poOutstanding"
    /\ cache' = Put(cache, PO_CACHE_KEY_PREFIX, j)
    /\ pc' = [pc EXCEPT ![j] = "saveSales"]
    /\ UNCHANGED <<stepFrame, abandoned>>
    /\ UNCHANGED <<routeVars, readerVars, lib>>

\* fetchAllPOOutstanding throws (caught, non-critical) or its save fails
POFail(j) ==
    /\ pc[j] = "poOutstanding"
    /\ pc' = [pc EXCEPT ![j] = "saveSales"]
    /\ UNCHANGED <<stepFrame, abandoned, cache>>
    /\ UNCHANGED <<routeVars, readerVars, lib>>

\* the timeout promise of attemptSync rejects
TimeoutRejectsMutant == FALSE

TimeoutRejects == TRUE

\* Promise.race settles with the timeout; the pipeline is left running.
Timeout(j) ==
    /\ pc[j] \in PhasePcs
    /\ timer[j] >= JOB_TIMEOUT
    /\ abandoned' = [abandoned EXCEPT ![j] = abandoned[j] + 1]
    /\ IF TimeoutRejects
       THEN Catch(j, "timeout")
       ELSE /\ pc' = [pc EXCEPT ![j] = "saveSales"]
            /\ UNCHANGED <<attempt, timer, lastError, syncLog, flagVars, cache>>
    /\ UNCHANGED <<schedVars, trigger>>
    /\ UNCHANGED <<routeVars, readerVars, lib>>

\* An abandoned pipeline runs to its end: its PO phase saves the PO cache,
\* unless the pipeline threw before or the PO fetch failed.
AbandonedPipelineEnds(j) ==
    /\ abandoned[j] > 0
    /\ abandoned' = [abandoned EXCEPT ![j] = abandoned[j] - 1]
    /\ \E wrote \in BOOLEAN : cache' = TryPut(cache, PO_CACHE_KEY_PREFIX, j, wrote)
    /\ UNCHANGED <<stepFrame, pc>>
    /\ UNCHANGED <<routeVars, readerVars, lib>>

\* the retry delay has elapsed: the loop goes round
DelayDone(j) ==
    /\ pc[j] = "delay"
    /\ timer[j] >= RETRY_DELAY
    /\ NextIteration(j, lastError[j])
    /\ UNCHANGED <<schedVars, trigger, abandoned>>
    /\ UNCHANGED <<routeVars, readerVars, lib>>

\* saveSalesCache(fromDate, result.salesMap, branchId)
SaveSalesCache(j) ==
    /\ pc[j] = "saveSales"
    /\ \E ok \in BOOLEAN : cache' = TryPut(cache, SalesKey, j, ok)
    /\ pc' = [pc EXCEPT ![j] = "saveWarehouse"]
    /\ UNCHANGED <<stepFrame, abandoned>>
    /\ UNCHANGED <<routeVars, readerVars, lib>>

\* saveWarehouseStockCache(warehouseStockMap); updateLogEntry(logId, 'SUCCESS',
\* msg); return
SaveWarehouseStockCache(j) ==
    /\ pc[j] = "saveWarehouse"
    /\ \E ok \in BOOLEAN : cache' = TryPut(cache, WH_STOCK_CACHE_KEY, j, ok)
    /\ syncLog' = UpdateLogEntry(syncLog, j, "SUCCESS", "Items")
    /\ EndJob(j, FALSE)
    /\ UNCHANGED <<schedVars, trigger, abandoned>>
    /\ UNCHANGED <<routeVars, readerVars, lib>>

\* ------------------------------------------------------------------ time
Min(S) == CHOOSE x \in S : \A y \in S : x <= y

\* minutes until the timer of job j expires (0: none pending)
Remaining(j) ==
    IF pc[j] \in PhasePcs THEN JOB_TIMEOUT - timer[j]
    ELSE IF pc[j] = "delay" THEN RETRY_DELAY - timer[j]
    ELSE 0

\* minutes until the flag reaches the stale threshold, then passes it
LockRemaining ==
    IF ~isRunning THEN 0
    ELSE IF staleDuration < STALE_LOCK THEN STALE_LOCK - staleDuration
    ELSE IF staleDuration = STALE_LOCK THEN 1
    ELSE 0

Deadlines == ({Remaining(j) : j \in Jobs} \cup {LockRemaining}) \ {0}

\* an expired timer runs its callback before time moves on
TimerDue == \E j \in Jobs : pc[j] \in PhasePcs \cup {"delay"} /\ Remaining(j) <= 0

Tick ==
    /\ ~TimerDue
    /\ Deadlines # {}
    /\ LET d == Min(Deadlines) IN
         /\ timer' = [j \in Jobs |->
                        IF pc[j] \in PhasePcs \cup {"delay"} THEN timer[j] + d ELSE timer[j]]
         /\ staleDuration' = IF isRunning /\ staleDuration <= STALE_LOCK
                             THEN staleDuration + d ELSE staleDuration
    /\ UNCHANGED <<schedVars, isRunning, trigger, pc, attempt, lastError,
                   abandoned, syncLog, cache>>
    /\ UNCHANGED <<routeVars, readerVars, lib>>

\* ------------------------------------------- manual trigger (scheduler API)
\* POST /api/scheduler?action=trigger: executeSyncJob('manual'), not awaited
\* and not guarded by the flag.
ManualTrigger ==
    /\ IdleJobs # {}
    /\ StartJob(NextJob, "manual")
    /\ UNCHANGED <<schedVars, flagVars, lastError, abandoned, routeVars, readerVars, lib>>

\* ------------------------------------------------- manual sync endpoint
\* The writer identity of the pipeline started by POST request p.
Writer(p) == MaxJobs + p

\* Default of the skipCacheOps parameter: the endpoint calls
\* fetchAllSalesData(fromDate, true, branchId).
DefaultSkipCacheOps == FALSE

postFrame == <<schedVars, flagVars, jobVars, readerVars, lib>>

\* POST up to `await request.json()`: 409 while syncState.status is 'running'
PostSync(p) ==
    /\ postPc[p] = "none"
    /\ postPc' = [postPc EXCEPT ![p] = IF syncState = "running" THEN "rejected"
                                       ELSE "parseBody"]
    /\ UNCHANGED <<postFrame, syncState, cache>>

\* the body is parsed: syncState becomes running and the background pipeline
\* starts; fetchAllSalesData (force, cache operations not skipped) calls
\* clearSalesCache
PostStart(p) ==
    /\ postPc[p] = "parseBody"
    /\ syncState' = "running"
    /\ postPc' = [postPc EXCEPT ![p] = "clearing"]
    /\ UNCHANGED <<postFrame, cache>>

\* clearSalesCache returns (a failed delete is swallowed)
PostCleared(p) ==
    /\ postPc[p] = "clearing"
    /\ \E ok \in BOOLEAN :
         cache' = IF ok THEN SalesCacheOnEntry(cache, Writer(p), DefaultSkipCacheOps)
                  ELSE cache
    /\ postPc' = [postPc EXCEPT ![p] = "listing"]
    /\ UNCHANGED <<postFrame, syncState>>

PostListingDone(p) ==
    /\ postPc[p] = "listing"
    /\ postPc' = [postPc EXCEPT ![p] = "details"]
    /\ UNCHANGED <<postFrame, syncState, cache>>

\* details fetched and aggregated; fetchAllSalesData saves the sales cache
PostDetailsDone(p) ==
    /\ postPc[p] = "details"
    /\ \E ok \in BOOLEAN :
         cache' = SalesCacheOnExit(cache, Writer(p), DefaultSkipCacheOps, ok)
    /\ postPc' = [postPc EXCEPT ![p] = "warehouseStock"]
    /\ UNCHANGED <<postFrame, syncState>>

\* catch (err) of the background pipeline: syncState.status = 'error'
PostError(p) ==
    /\ syncState' = "error"
    /\ postPc' = [postPc EXCEPT ![p] = "error"]
    /\ UNCHANGED <<postFrame, cache>>

PostAggregateThrow(p) ==
    /\ postPc[p] = "details"
    /\ PostError(p)

\* fetchAllInventory and fetchWarehouseStock return
PostWarehouseStockDone(p) ==
    /\ postPc[p] = "warehouseStock"
    /\ postPc' = [postPc EXCEPT ![p] = "saveWarehouse"]
    /\ UNCHANGED <<postFrame, syncState, cache>>

PostInventoryThrow(p) ==
    /\ postPc[p] = "warehouseStock"
    /\ PostError(p)

PostSaveWarehouseStockCache(p) ==
    /\ postPc[p] = "saveWarehouse"
    /\ \E ok \in BOOLEAN : cache' = TryPut(cache, WH_STOCK_CACHE_KEY, Writer(p), ok)
    /\ postPc' = [postPc EXCEPT ![p] = "poOutstanding"]
    /\ UNCHANGED <<postFrame, syncState>>

\* fetchAllPOOutstanding returns: syncState.status = 'done'
PostPODone(p) ==
    /\ postPc[p] = "poOutstanding"
    /\ \E ok \in BOOLEAN : cache' = TryPut(cache, PO_CACHE_KEY_PREFIX, Writer(p), ok)
    /\ syncState' = "done"
    /\ postPc' = [postPc EXCEPT ![p] = "done"]
    /\ UNCHANGED postFrame

\* fetchAllPOOutstanding throws: the pipeline has no try around this phase,
\* the catch of the whole pipeline takes it
PostPOThrow(p) ==
    /\ postPc[p] = "poOutstanding"
    /\ PostError(p)

PostStep(p) ==
    \/ PostSync(p)
    \/ PostStart(p)
    \/ PostCleared(p)
    \/ PostListingDone(p)
    \/ PostDetailsDone(p)
    \/ PostAggregateThrow(p)
    \/ PostWarehouseStockDone(p)
    \/ PostInventoryThrow(p)
    \/ PostSaveWarehouseStockCache(p)
    \/ PostPODone(p)
    \/ PostPOThrow(p)

\* --------------------------------------------------- inventory endpoint
\* GET /api/inventory with a warehouse filter reads the two caches at two
\* awaits of one request.
readerFrame == <<schedVars, flagVars, jobVars, cache, routeVars, lib>>

\* loadSalesCache(analysisStart, branchId)
ReadSales ==
    /\ readerPc \in {"idle", "done"}
    /\ readSales' = Get(cache, SalesKey)
    /\ readerPc' = "warehouse"
    /\ UNCHANGED <<readerFrame, readWh>>

\* loadWarehouseStockCache()
ReadWarehouse ==
    /\ readerPc = "warehouse"
    /\ readWh' = Get(cache, WH_STOCK_CACHE_KEY)
    /\ readerPc' = "done"
    /\ UNCHANGED <<readerFrame, readSales>>

\* ------------------------------------------------------------------ Spec
\* The steps of executeSyncJob that need no timer to expire.
PipelineStep(j) ==
    \/ ListingDone(j)
    \/ DetailsDone(j)
    \/ AggregateThrow(j)
    \/ WarehouseStockDone(j)
    \/ InventoryThrow(j)
    \/ PODone(j)
    \/ POFail(j)
    \/ SaveSalesCache(j)
    \/ SaveWarehouseStockCache(j)

\* The steps that follow an expired timer.
TimerStep(j) ==
    \/ Timeout(j)
    \/ AbandonedPipelineEnds(j)
    \/ DelayDone(j)

JobStep(j) == PipelineStep(j) \/ TimerStep(j)

\* The scheduler alone: jobs started by the cron callback, with time.
Next ==
    \/ StartScheduler
    \/ CronFire
    \/ Tick
    \/ \E j \in Jobs : PipelineStep(j)
    \/ \E j \in Jobs : TimerStep(j)

Spec == Init /\ [][Next]_vars

\* Every pending call returns or throws, every timer fires, time passes.
Fairness ==
    /\ WF_vars(Tick)
    /\ \A j \in Jobs : WF_vars(JobStep(j))

FairSpec == Spec /\ Fairness

\* All three triggers, before any timer expires.
TriggerNext ==
    \/ StartScheduler
    \/ CronFire
    \/ ManualTrigger
    \/ \E j \in Jobs : PipelineStep(j)
    \/ \E p \in Posts : PostStep(p)

TriggerSpec == Init /\ [][TriggerNext]_vars

\* Scheduled jobs and a reader of the caches, before any timer expires.
ReaderNext ==
    \/ StartScheduler
    \/ CronFire
    \/ \E j \in Jobs : PipelineStep(j)
    \/ ReadSales
    \/ ReadWarehouse

ReaderSpec == Init /\ [][ReaderNext]_vars

\* ------------------------------------------------------------ properties
\* executeSyncJob has been entered and has not returned
Running(j) == pc[j] \notin {"idle", "done"}

\* the background pipeline of POST request p is in progress
PostRunning(p) ==
    postPc[p] \in {"clearing", "listing", "details", "warehouseStock",
                   "saveWarehouse", "poOutstanding"}

\* the keys executeSyncJob commits
CommitKeys == {SalesKey, WH_STOCK_CACHE_KEY}

\* C1 (atomic commit): a job that ends FAILED has left the sales entry and the
\* warehouse-stock entry as they were.  The job touches these two rows only at
\* its commit positions, a job at a commit position ends SUCCESS and stays so,
\* and hence no row carries the mark of a FAILED job.
C1_AtomicCommit ==
    /\ [](\A j \in Jobs : syncLog[j].status = "FAILED" =>
            \A k \in CommitKeys : cache[k].writer # j)
    /\ [][\A j \in Jobs :
            /\ \A k \in CommitKeys :
                 (cache'[k] # cache[k] /\ cache'[k].writer = j) => pc[j] \in CommitPcs
            /\ pc[j] \in CommitPcs =>
                 \/ pc'[j] \in CommitPcs /\ syncLog'[j].status # "FAILED"
                 \/ pc'[j] = "done" /\ syncLog'[j].status = "SUCCESS"
            /\ syncLog[j].status = "SUCCESS" => syncLog'[j].status = "SUCCESS"]_vars

\* C1 witness: a job has ended FAILED on a thrown phase and both rows still
\* hold the data from before the job.
C1_Witness ==
    \E j \in Jobs :
        /\ pc[j] = "done"
        /\ syncLog[j] = [status |-> "FAILED", message |-> "throw"]
        /\ \A k \in CommitKeys : cache[k] = OldEntry

\* C2 (single-flight): at no time are two sync jobs (executeSyncJob runs or
\* pipelines of the manual sync endpoint) in progress together.
C2_SingleFlight ==
    Cardinality({j \in Jobs : Running(j)}) + Cardinality({p \in Posts : PostRunning(p)}) <= 1

\* C3 (write after all phases): a job writes a cache row of any domain only
\* once the required phases of its current attempt (sales, inventory and
\* warehouse stock) have completed, that is from the PO phase on.
C3_WriteAfterAllPhases ==
    [][\A j \in Jobs : \A k \in Keys :
          (cache'[k] # cache[k] /\ cache'[k].writer = j)
             => pc[j] \in {"poOutstanding"} \cup CommitPcs]_vars

\* C4 (snapshot isolation): a request that has just loaded the sales aggregate
\* and loads the warehouse stock while that sales row is still the stored one
\* gets a row of the same commit: both from before the job or both written by
\* it, never a mix.
C4_SnapshotIsolation ==
    (readerPc = "warehouse" /\ Get(cache, SalesKey) = readSales)
        => Get(cache, WH_STOCK_CACHE_KEY) = readSales

\* C5 (whole-job retry bound): at most MAX_RETRIES attempts; an attempt starts
\* at the listing with a fresh timeout; attempt n+1 starts only from the retry
\* delay after attempt n failed and the delay elapsed; no attempt follows a
\* commit; the row turns FAILED only on the failure of attempt MAX_RETRIES,
\* with that failure's message.
C5_RetryBound ==
    /\ [](\A j \in Jobs : attempt[j] <= MAX_RETRIES)
    /\ [][\A j \in Jobs :
            /\ (pc'[j] = "listing" /\ (pc[j] # "listing" \/ attempt'[j] # attempt[j])) =>
                 /\ attempt'[j] = attempt[j] + 1
                 /\ timer'[j] = 0
                 /\ \/ pc[j] = "idle" /\ attempt[j] = 0
                    \/ /\ pc[j] = "delay"
                       /\ timer[j] >= RETRY_DELAY
                       /\ lastError[j].attempt = attempt[j]
            /\ (attempt'[j] # attempt[j] /\ pc'[j] # "done") => pc'[j] = "listing"
            /\ pc[j] \in CommitPcs => (attempt'[j] = attempt[j] \/ pc'[j] = "done")
            /\ pc[j] = "done" => pc'[j] = "done"
            /\ (syncLog'[j].status = "FAILED" /\ syncLog[j].status # "FAILED") =>
                 /\ attempt[j] = MAX_RETRIES
                 /\ pc[j] \in PhasePcs
                 /\ pc'[j] = "done"
                 /\ syncLog'[j].message =
                      IF abandoned'[j] > abandoned[j] THEN "timeout" ELSE "throw"]_vars

\* C5 witness: the third attempt has just started, after the second failed.
C5_Witness ==
    \E j \in Jobs :
        /\ pc[j] = "listing"
        /\ attempt[j] = MAX_RETRIES
        /\ lastError[j].attempt = MAX_RETRIES - 1

\* C6 (per-attempt timeout): the step at which an attempt is declared timed out
\* happens only JOB_TIMEOUT after the attempt started, writes no cache row,
\* and takes the path of a thrown phase: the retry delay with the same attempt
\* number when attempts remain, FAILED and the end of the job on the last one.
C6_TimeoutIsFailure ==
    [][\A j \in Jobs : abandoned'[j] > abandoned[j] =>
          /\ pc[j] \in PhasePcs
          /\ timer[j] >= JOB_TIMEOUT
          /\ cache' = cache
          /\ IF attempt[j] < MAX_RETRIES
             THEN /\ pc'[j] = "delay"
                  /\ timer'[j] = 0
                  /\ attempt'[j] = attempt[j]
                  /\ lastError'[j] = [kind |-> "timeout", attempt |-> attempt[j]]
                  /\ syncLog'[j] = syncLog[j]
             ELSE /\ pc'[j] = "done"
                  /\ syncLog'[j] = [status |-> "FAILED", message |-> "timeout"]]_vars

\* C6 witness: a job waits in the retry delay after a timed out attempt, the
\* committed rows untouched.
C6_Witness ==
    \E j \in Jobs :
        /\ pc[j] = "delay"
        /\ lastError[j].kind = "timeout"
        /\ abandoned[j] > 0
        /\ \A k \in CommitKeys : cache[k] = OldEntry

\* a step in which the cron callback starts a job
ScheduledStart(j) == pc[j] = "idle" /\ pc'[j] # "idle" /\ trigger'[j] = "scheduled"

\* C7 (stale-lock guard): a scheduled trigger starts a job only if the flag is
\* not set or has been held longer than STALE_LOCK, and then the flag is set
\* with a fresh timestamp; while the flag is set and not older than STALE_LOCK
\* the callback can change nothing; otherwise it can start a job.
C7_StaleLockGuard ==
    /\ [][\A j \in Jobs : ScheduledStart(j) =>
            /\ ~isRunning \/ staleDuration > STALE_LOCK
            /\ isRunning'
            /\ staleDuration' = 0]_vars
    /\ [](cronTask /\ IdleJobs # {} =>
            (ENABLED (CronFire /\ vars' # vars)
               <=> (~isRunning \/ staleDuration > STALE_LOCK)))

\* C7 witness: a second scheduled job runs beside one whose flag was
\* force-cleared as stale.
C7_Witness ==
    \E i, j \in Jobs :
        /\ i # j
        /\ Running(i) /\ trigger[i] = "scheduled"
        /\ Running(j) /\ trigger[j] = "scheduled"
        /\ isRunning

C10_OldEntryStaysInPlace == Get(cache, SalesKey) # Missing

\* ------------------------------------------------------- cache reads
\* bounds of the cache-read specification
MaxDate == 1
MaxBranch == 2
MaxNow == 3
MaxSaves == 3

\* hours
CACHE_TTL == 1
WH_STOCK_CACHE_TTL == 2

\* branchId?: number, not given
Undefined == -1

Dates == 1..MaxDate
BranchArgs == {Undefined} \cup (0..MaxBranch)

\* `branchId ? ... : ...`
Truthy(b) == b # Undefined /\ b # 0

\* every sales read and write goes to the all-branch key
GetCacheKeyMutant(d, b) == <<"sales-cache", d, Undefined>>

\* getCacheKey: `sales-cache-${dateKey}${branchKey}`
GetCacheKey(d, b) == <<"sales-cache", d, IF Truthy(b) THEN b ELSE Undefined>>

WhKey == <<WH_STOCK_CACHE_KEY, 0, Undefined>>
\* the keys the store can hold
CacheKeys ==
    {<<"sales-cache", d, b>> : d \in Dates, b \in {Undefined} \cup (1..MaxBranch)}
        \cup {WhKey}

\* a row of prisma.dataCache: { timestamp, data }; data is identified by the
\* arguments of the save that wrote it
NoEntry == [present |-> FALSE, timestamp |-> 0, data |-> <<0, Undefined>>]
Entry(t, d, b) == [present |-> TRUE, timestamp |-> t, data |-> <<d, b>>]

\* what a load returns: null, or the stored data (age is only logged)
Miss == [hit |-> FALSE, age |-> 0, data |-> <<0, Undefined>>]
Hit(e, age) == [hit |-> TRUE, age |-> age, data |-> e.data]

\* loadSalesCache(fromDate, branchId)
LoadSalesCache(store, now, d, b) ==
    LET cacheEntry == store[GetCacheKey(d, b)] IN
    IF ~cacheEntry.present THEN Miss
    ELSE Hit(cacheEntry, now - cacheEntry.timestamp)

\* loadWarehouseStockCache()
LoadWarehouseStockCache(store, now) ==
    LET cacheEntry == store[WhKey] IN
    IF ~cacheEntry.present THEN Miss
    ELSE Hit(cacheEntry, now - cacheEntry.timestamp)

NoRead == [fn |-> "none", d |-> 0, b |-> Undefined, result |-> Miss]

CacheInit ==
    /\ AtRest
    /\ lib = [fn |-> "cache", now |-> 0, saves |-> 0,
              store |-> [k \in CacheKeys |-> NoEntry], read |-> NoRead]

\* saveSalesCache(fromDate, salesMap, branchId): upsert with timestamp Date.now()
CacheSaveSales ==
    /\ lib.saves < MaxSaves
    /\ \E d \in Dates, b \in BranchArgs :
         lib' = [lib EXCEPT !.saves = @ + 1,
                            !.store[GetCacheKey(d, b)] = Entry(lib.now, d, b)]
    /\ UNCHANGED processVars

\* saveWarehouseStockCache(stockMap)
CacheSaveWarehouseStock ==
    /\ lib.saves < MaxSaves
    /\ lib' = [lib EXCEPT !.saves = @ + 1,
                          !.store[WhKey] = Entry(lib.now, 0, Undefined)]
    /\ UNCHANGED processVars

\* an hour passes
CacheAdvance ==
    /\ lib.now < MaxNow
    /\ lib' = [lib EXCEPT !.now = @ + 1]
    /\ UNCHANGED processVars

CacheLoadSales ==
    /\ \E d \in Dates, b \in BranchArgs :
         lib' = [lib EXCEPT !.read = [fn |-> "loadSalesCache", d |-> d, b |-> b,
                                      result |-> LoadSalesCache(lib.store, lib.now, d, b)]]
    /\ UNCHANGED processVars

CacheLoadWarehouseStock ==
    /\ lib' = [lib EXCEPT !.read = [fn |-> "loadWarehouseStockCache", d |-> 0,
                                    b |-> Undefined,
                                    result |-> LoadWarehouseStockCache(lib.store, lib.now)]]
    /\ UNCHANGED processVars

CacheNext ==
    \/ CacheSaveSales
    \/ CacheSaveWarehouseStock
    \/ CacheAdvance
    \/ CacheLoadSales
    \/ CacheLoadWarehouseStock

CacheSpec == CacheInit /\ [][CacheNext]_vars

\* the TTL of the cache a read went to
TTLOf(fn) == IF fn = "loadSalesCache" THEN CACHE_TTL ELSE WH_STOCK_CACHE_TTL

\* the stored row a read went to
RowOf(r) == IF r.fn = "loadSalesCache" THEN lib.store[GetCacheKey(r.d, r.b)]
            ELSE lib.store[WhKey]

\* C11 (TTL staleness at read time): a read of a stored entry aged TTL + 1 is
\* a miss, a read of a stored entry aged TTL - 1 is a hit, and the read leaves
\* the entry in the store.
C11_TTLStaleness ==
    [][lib'.read # lib.read =>
         LET r == lib'.read
             age == lib.now - RowOf(r).timestamp IN
         /\ lib'.store = lib.store
         /\ RowOf(r).present =>
              /\ age = TTLOf(r.fn) + 1 => ~r.result.hit
              /\ age = TTLOf(r.fn) - 1 => r.result.hit]_vars

\* C12 (branch isolation of cache reads): a sales read for date d and branch
\* b (a branch id of Accurate, b >= 1) is a hit exactly when a row is stored
\* under (d, b), and then returns the data saved under (d, b); rows of the
\* all-branch key or of other branches never stand in.
C12_BranchIsolation ==
    [][lib'.read # lib.read =>
         LET r == lib'.read IN
         (r.fn = "loadSalesCache" /\ r.b >= 1) =>
             /\ r.result.hit <=> lib.store[<<"sales-cache", r.d, r.b>>].present
             /\ r.result.hit => r.result.data = <<r.d, r.b>>]_vars

\* C12 witness: a read for branch 1 missed; no row is stored for branch 1,
\* while the all-branch row and the row of branch 2 exist for that date.
C12_Witness ==
    LET r == lib.read IN
    /\ r.fn = "loadSalesCache" /\ r.b = 1
    /\ ~r.result.hit
    /\ ~lib.store[<<"sales-cache", r.d, 1>>].present
    /\ lib.store[<<"sales-cache", r.d, Undefined>>].present
    /\ lib.store[<<"sales-cache", r.d, 2>>].present

(***************************************************************************)
(* Detail fetchers and batch runners of accurate.ts.                       *)
(*                                                                         *)
(* fetchInvoiceDetail / fetchPODetail / fetchSODetail request one record,  *)
(* retrying a request that threw; fetchDetailsInBatch,                     *)
(* fetchPODetailsInBatch, fetchSODetailsInBatch and fetchWarehouseStock    *)
(* drive them over a list of ids in batches.  The remote API is a stub     *)
(* chosen with the call: for every id it fails the first k requests, all   *)
(* by a thrown error or all by an unsuccessful response, and answers every *)
(* later request with the record.  Time is counted in units of 500 ms.     *)
(***************************************************************************)
MaxIds == 3

MaxBatch == 2

MaxFails == 4

DEFAULT_MAX_RETRIES == 3

RETRY_PASS_MAX_RETRIES == 3

BACKOFF_STEP == 2

RETRY_PASS_DELAY == 1

BatchDomains == {"invoice", "po", "so", "stock"}

FailureKinds == {"throw", "unsuccessful"}

Stubs ==
    {[k |-> 0, kind |-> "throw"]}
        \cup {[k |-> k, kind |-> kd] : k \in 1..MaxFails, kd \in FailureKinds}

\* Only the invoice and purchase-order runners have the "Retry failed" block.
HasRetryPass(d) == d \in {"invoice", "po"}

\* fetchItemWarehouseStock has no retry loop: one request, [] on any failure.
MaxRetriesOf(l) ==
    IF l.domain = "stock" THEN 1
    ELSE IF l.pass = "retry" THEN RETRY_PASS_MAX_RETRIES
    ELSE DEFAULT_MAX_RETRIES

BackoffMutant(a) == BACKOFF_STEP

\* const delay = 1000 * attempt
Backoff(a) == BACKOFF_STEP * a

IdleFetch == [pc |-> "idle", attempt |-> 0, waited |-> 0, result |-> "none"]

FirstRequest == [pc |-> "request", attempt |-> 1, waited |-> 0, result |-> "none"]

Resolved(f, res) == [f EXCEPT !.pc = "resolved", !.result = res]

\* poIds.slice(i, i + batchSize), as positions in the id list
Batch(l, i) == {id \in 1..l.n : i < id /\ id <= i + l.batchSize}

\* batch.map(id => fetchDetail(id)): every member issues its first request
StartBatch(l, i) ==
    [l EXCEPT !.i = i,
              !.fetch = [id \in 1..l.n |->
                            IF id \in Batch(l, i) THEN FirstRequest ELSE l.fetch[id]]]

InFlight(l) == {id \in 1..l.n : l.fetch[id].pc \in {"request", "wait"}}

BatchResolvedMutant(l) == \E id \in Batch(l, l.i) : l.fetch[id].pc = "resolved"

\* await Promise.all(...)
BatchResolved(l) == \A id \in Batch(l, l.i) : l.fetch[id].pc = "resolved"

RECURSIVE Collect(_, _, _, _)
\* batch.forEach((id, idx) => ...): the ids of lo..hi that satisfy keep, in order
Collect(l, lo, hi, keep) ==
    IF lo > hi THEN <<>>
    ELSE (IF (l.fetch[lo].result = "record") = keep THEN <<lo>> ELSE <<>>)
             \o Collect(l, lo + 1, hi, keep)

\* fetchWarehouseStock sets an entry for every item, failed or not
CollectAll(lo, hi) == [x \in 1..(IF hi < lo THEN 0 ELSE hi - lo + 1) |-> lo + x - 1]

Return(l) == [l EXCEPT !.pass = "returned", !.ret = [records |-> l.results]]

NoneLogged == -1

\* "stillFailed" is computed and logged by fetchDetailsInBatch only
LogShortfall(l) ==
    IF l.domain = "invoice"
    THEN [l EXCEPT !.logged = Len(l.failedIds) - l.recovered]
    ELSE l

BatchInit ==
    /\ AtRest
    /\ \E d \in BatchDomains, n \in 0..MaxIds, b \in 1..MaxBatch :
         \E st \in [1..n -> Stubs] :
            lib = [fn |-> "batch", domain |-> d, n |-> n, batchSize |-> b,
                   stub |-> st, made |-> [id \in 1..n |-> 0],
                   pass |-> "called", i |-> 0,
                   fetch |-> [id \in 1..n |-> IdleFetch],
                   results |-> <<>>, failedIds |-> <<>>,
                   r |-> 0, sleepWaited |-> 0, recovered |-> 0,
                   logged |-> NoneLogged, ret |-> [records |-> <<>>],
                   progress |-> <<>>]

\* The call itself: the first batch is mapped before the function first awaits.
BatchCall ==
    /\ lib.fn = "batch" /\ lib.pass = "called"
    /\ lib' = IF lib.n = 0 THEN Return(lib)
              ELSE StartBatch([lib EXCEPT !.pass = "main"], 0)
    /\ UNCHANGED processVars

Outcome(l, id) == IF l.made[id] < l.stub[id].k THEN l.stub[id].kind ELSE "ok"

\* catch (err): delay and loop when attempt < maxRetries, else return null
RequestThrows(id) ==
    /\ lib.fn = "batch" /\ id \in 1..lib.n
    /\ lib.fetch[id].pc = "request"
    /\ Outcome(lib, id) = "throw"
    /\ lib' = [lib EXCEPT
                 !.made[id] = @ + 1,
                 !.fetch[id] = IF @.attempt < MaxRetriesOf(lib)
                               THEN [@ EXCEPT !.pc = "wait", !.waited = 0]
                               ELSE Resolved(@, "null")]
    /\ UNCHANGED processVars

\* "API returned s=false, no point retrying": return null
ResponseUnsuccessful(id) ==
    /\ lib.fn = "batch" /\ id \in 1..lib.n
    /\ lib.fetch[id].pc = "request"
    /\ Outcome(lib, id) = "unsuccessful"
    /\ lib' = [lib EXCEPT !.made[id] = @ + 1,
                          !.fetch[id] = Resolved(@, "null")]
    /\ UNCHANGED processVars

\* response.data?.s && response.data.d: return the record
ResponseOk(id) ==
    /\ lib.fn = "batch" /\ id \in 1..lib.n
    /\ lib.fetch[id].pc = "request"
    /\ Outcome(lib, id) = "ok"
    /\ lib' = [lib EXCEPT !.made[id] = @ + 1,
                          !.fetch[id] = Resolved(@, "record")]
    /\ UNCHANGED processVars

\* the setTimeout of the catch block fires: next iteration of the for loop
BackoffDone(id) ==
    /\ lib.fn = "batch" /\ id \in 1..lib.n
    /\ lib.fetch[id].pc = "wait"
    /\ lib.fetch[id].waited >= Backoff(lib.fetch[id].attempt)
    /\ lib' = [lib EXCEPT !.fetch[id] = [@ EXCEPT !.pc = "request",
                                                   !.attempt = @ + 1,
                                                   !.waited = 0]]
    /\ UNCHANGED processVars

BatchTimerDue(l) ==
    \/ \E id \in 1..l.n : /\ l.fetch[id].pc = "wait"
                          /\ l.fetch[id].waited >= Backoff(l.fetch[id].attempt)
    \/ l.pass = "sleep" /\ l.sleepWaited >= RETRY_PASS_DELAY

BatchTimerSet(l) ==
    \/ \E id \in 1..l.n : l.fetch[id].pc = "wait"
    \/ l.pass = "sleep"

\* 500 ms pass; a timer that is due fires before more time passes
BatchTick ==
    /\ lib.fn = "batch"
    /\ BatchTimerSet(lib) /\ ~BatchTimerDue(lib)
    /\ lib' = [lib EXCEPT
                 !.fetch = [id \in 1..lib.n |->
                               IF lib.fetch[id].pc = "wait"
                               THEN [lib.fetch[id] EXCEPT !.waited = @ + 1]
                               ELSE lib.fetch[id]],
                 !.sleepWaited = IF lib.pass = "sleep" THEN @ + 1 ELSE @]
    /\ UNCHANGED processVars

\* After the main loop: the retry pass where there is one, else the return.
AfterMainPass(l) ==
    IF HasRetryPass(l.domain) /\ Len(l.failedIds) > 0
    THEN [l EXCEPT !.pass = "sleep", !.r = 1, !.sleepWaited = 0]
    ELSE Return(l)

ProgressDoneMutant(i, batchSize, total) == i + batchSize

\* Math.min(i + batchSize, total)
ProgressDone(i, batchSize, total) ==
    IF i + batchSize < total THEN i + batchSize ELSE total

\* if (onProgress) onProgress(Math.min(i + batchSize, total), total): the
\* invocations the caller's callback has received, in order
OnProgress(l) ==
    [l EXCEPT !.progress =
        Append(@, [done |-> ProgressDone(l.i, l.batchSize, l.n), total |-> l.n])]

\* Promise.all resolved: sort the batch into results and failedIds, report
\* progress, then the next batch, or the end of the main loop.
MainPassStep ==
    /\ lib.fn = "batch" /\ lib.pass = "main"
    /\ BatchResolved(lib)
    /\ LET hi == IF lib.i + lib.batchSize < lib.n
                 THEN lib.i + lib.batchSize ELSE lib.n
           sorted == IF lib.domain = "stock"
                     THEN [lib EXCEPT !.results = @ \o CollectAll(lib.i + 1, hi)]
                     ELSE [lib EXCEPT
                             !.results = @ \o Collect(lib, lib.i + 1, hi, TRUE),
                             !.failedIds = @ \o Collect(lib, lib.i + 1, hi, FALSE)]
           reported == OnProgress(sorted)
       IN lib' = IF lib.i + lib.batchSize < lib.n
                 THEN StartBatch(reported, lib.i + lib.batchSize)
                 ELSE AfterMainPass(reported)
    /\ UNCHANGED processVars

\* await new Promise(resolve => setTimeout(resolve, 500)), then
\* fetchDetail(id, 3)
RetryDelayDone ==
    /\ lib.fn = "batch" /\ lib.pass = "sleep"
    /\ lib.sleepWaited >= RETRY_PASS_DELAY
    /\ lib' = [lib EXCEPT !.pass = "retry",
                          !.fetch[lib.failedIds[lib.r]] = FirstRequest]
    /\ UNCHANGED processVars

\* the retried fetch resolved: push a recovered record, then the next failed
\* id, or the return
RetryPassStep ==
    /\ lib.fn = "batch" /\ lib.pass = "retry"
    /\ LET id == lib.failedIds[lib.r]
           got == lib.fetch[id].result = "record"
           pushed == [lib EXCEPT
                        !.results = IF got THEN Append(@, id) ELSE @,
                        !.recovered = IF got THEN @ + 1 ELSE @]
       IN /\ lib.fetch[id].pc = "resolved"
          /\ lib' = IF lib.r < Len(lib.failedIds)
                    THEN [pushed EXCEPT !.pass = "sleep", !.r = @ + 1,
                                        !.sleepWaited = 0]
                    ELSE Return(LogShortfall(pushed))
    /\ UNCHANGED processVars

FetchStep(id) ==
    \/ RequestThrows(id)
    \/ ResponseUnsuccessful(id)
    \/ ResponseOk(id)
    \/ BackoffDone(id)

BatchNext ==
    \/ BatchCall
    \/ \E id \in 1..MaxIds : FetchStep(id)
    \/ BatchTick
    \/ MainPassStep
    \/ RetryDelayDone
    \/ RetryPassStep

BatchSpec == BatchInit /\ [][BatchNext]_vars

Fetchers(l) == IF l.domain = "stock" THEN {} ELSE 1..l.n

\* C13 as stated: a detail fetch returns the "not found" sentinel only on
\* its final (maxRetries-th) attempt, an unsuccessful response being retried
\* like a thrown error.
C13_SentinelOnlyOnFinalAttempt ==
    [][\A id \in Fetchers(lib) :
          (lib'.fetch[id].result = "null" /\ lib.fetch[id].pc = "request")
              => lib.fetch[id].attempt = MaxRetriesOf(lib)]_vars

\* C13 (amended): a detail fetch for one id makes at most maxRetries (3)
\* requests and ends in the record or the sentinel, never an exception; a
\* request that threw on attempt a < maxRetries is followed by a wait of
\* a x 1000 ms (2a units) and attempt a + 1; the sentinel is returned on a
\* throw of the final attempt and at once, on any attempt, on an
\* unsuccessful response; the record is returned as soon as one attempt
\* succeeds.
C13_DetailFetcherRetry ==
    /\ [](\A id \in Fetchers(lib) :
             /\ lib.fetch[id].attempt <= DEFAULT_MAX_RETRIES
             /\ lib.fetch[id].pc = "resolved"
                    => lib.fetch[id].result \in {"record", "null"})
    /\ [][\A id \in Fetchers(lib) :
             LET f == lib.fetch[id]
                 g == lib'.fetch[id]
             IN /\ (f.pc = "request" /\ g # f) =>
                      /\ Outcome(lib, id) = "ok"
                            => g = [f EXCEPT !.pc = "resolved", !.result = "record"]
                      /\ Outcome(lib, id) = "unsuccessful"
                            => g = [f EXCEPT !.pc = "resolved", !.result = "null"]
                      /\ (Outcome(lib, id) = "throw" /\ f.attempt < DEFAULT_MAX_RETRIES)
                            => g.pc = "wait" /\ g.attempt = f.attempt
                      /\ (Outcome(lib, id) = "throw" /\ f.attempt = DEFAULT_MAX_RETRIES)
                            => g = [f EXCEPT !.pc = "resolved", !.result = "null"]
                /\ (f.pc = "wait" /\ g # f /\ g.pc # "wait") =>
                      /\ f.waited = 2 * f.attempt
                      /\ g.pc = "request" /\ g.attempt = f.attempt + 1]_vars

\* Two requests threw, each followed by its wait, and the third returned the
\* record.
C13_Witness ==
    /\ lib.fn = "batch" /\ lib.pass = "main" /\ lib.domain = "so"
    /\ \E id \in 1..lib.n :
          /\ lib.stub[id] = [k |-> 2, kind |-> "throw"]
          /\ lib.fetch[id].result = "record"
          /\ lib.fetch[id].attempt = 3

\* C14: in one run with batch size B at most B detail fetches are in flight
\* at any time, and the fetches of a batch start only when no fetch of an
\* earlier batch is unresolved.
C14_BoundedConcurrency ==
    /\ [](Cardinality(InFlight(lib)) <= lib.batchSize)
    /\ [][\A id \in 1..lib.n :
             (lib.fetch[id].pc = "idle" /\ lib'.fetch[id].pc = "request")
                 => /\ InFlight(lib) = {}
                    /\ \A earlier \in 1..lib'.i :
                          lib.fetch[earlier].pc = "resolved"]_vars

\* Two fetches of one batch were in flight and the second member resolved
\* first; the next batch has not started.
C14_Witness ==
    /\ lib.fn = "batch" /\ lib.pass = "main"
    /\ lib.batchSize = 2 /\ lib.n = 3
    /\ lib.fetch[1].pc = "wait"
    /\ lib.fetch[2].pc = "resolved"
    /\ lib.fetch[3].pc = "idle"

Recorded(l) == {l.results[x] : x \in 1..Len(l.results)}

Failed(l) == {l.failedIds[x] : x \in 1..Len(l.failedIds)}

\* C15: for the invoice, PO and SO runners, an id whose requests throw
\* k < maxRetries times and then succeed is recovered by the main pass (it
\* never enters the failed list), and an id whose requests throw exactly
\* maxRetries times and then succeed is recovered in the retry pass; a
\* retry-pass fetch starts only after the main pass, with no other fetch in
\* flight, 500 ms after the previous step.
C15_TwoPassRecovery ==
    /\ [](lib.domain # "stock" /\ lib.pass = "returned" =>
             \A id \in 1..lib.n :
                lib.stub[id].kind = "throw" =>
                   /\ lib.stub[id].k < DEFAULT_MAX_RETRIES
                         => id \in Recorded(lib) /\ id \notin Failed(lib)
                   /\ lib.stub[id].k = DEFAULT_MAX_RETRIES
                         => id \in Recorded(lib) /\ id \in Failed(lib))
    /\ [][(lib.pass # "retry" /\ lib'.pass = "retry") =>
             /\ lib.i + lib.batchSize >= lib.n
             /\ InFlight(lib) = {}
             /\ lib.sleepWaited = 1]_vars

Succeeded(l) == {id \in 1..l.n : l.fetch[id].result = "record"}

Returned(l) == {l.ret.records[x] : x \in 1..Len(l.ret.records)}

\* C16: a run of the invoice or PO runner ends by returning (failed items
\* never make it throw); the value returned holds exactly the ids whose
\* fetch succeeded in the main pass or in the retry pass, each once, and
\* carries the count of the ids that failed in both passes.
C16_BatchResult ==
    (lib.domain \in {"invoice", "po"} /\ lib.pass = "returned") =>
        /\ Returned(lib) = Succeeded(lib)
        /\ Len(lib.ret.records) = Cardinality(Succeeded(lib))
        /\ "stillFailed" \in DOMAIN lib.ret
        /\ lib.ret.stillFailed = lib.n - Cardinality(Succeeded(lib))

(***************************************************************************)
(* Paged listings of accurate.ts: fetchInvoiceList, fetchPOList and        *)
(* fetchSOList.  One action is one iteration of the while (hasMore) loop:  *)
(* the page request and the handling of its response, and, when the        *)
(* iteration clears hasMore, the return that follows the loop without any  *)
(* further await.  The remote API answers every request as it likes.  The  *)
(* result is counted in pages of which at least one record was kept.       *)
(***************************************************************************)
MaxMatchPages == 17

INVOICE_MAX_PAGES == 500

PO_MAX_PAGES == 200

MAX_PAGES == 500

MAX_EMPTY_PAGES == 30

ListDomains == {"invoice", "po", "so"}

\* if (page > 500) / if (page > 200) / if (page > MAX_PAGES)
PageCap(d) ==
    IF d = "invoice" THEN INVOICE_MAX_PAGES
    ELSE IF d = "po" THEN PO_MAX_PAGES
    ELSE MAX_PAGES

\* The invoice listing keeps every record of a page; the PO listing drops
\* closed POs and the SO listing drops excluded and non-selected statuses,
\* so a page of theirs may have records and keep none.
HasClientFilter(d) == d \in {"po", "so"}

RunTooLongMutant(c) == c > MAX_EMPTY_PAGES

\* if (consecutiveEmptyPages >= MAX_EMPTY_PAGES)
RunTooLong(c) == c >= MAX_EMPTY_PAGES

NotReturned == -1

ListInit ==
    /\ AtRest
    /\ \E d \in ListDomains, filtered \in BOOLEAN :
          /\ filtered => d = "so"
          /\ lib = [fn |-> "list", domain |-> d, isStatusFiltered |-> filtered,
                    page |-> 1, hasMore |-> TRUE, consecutiveEmptyPages |-> 0,
                    all |-> 0, requests |-> 0, stop |-> "none",
                    ret |-> NotReturned]

Looping == lib.fn = "list" /\ lib.hasMore

Requested(l) == [l EXCEPT !.requests = @ + 1]

\* while (hasMore) { ... }  return allInvoices / allPOs / allSOs
EndOfIteration(l) == IF l.hasMore THEN l ELSE [l EXCEPT !.ret = l.all]

\* if (list.length === 0) hasMore = false
PageEmpty ==
    /\ Looping
    /\ lib' = EndOfIteration([Requested(lib) EXCEPT !.hasMore = FALSE,
                                                    !.stop = "empty"])
    /\ UNCHANGED processVars

\* page++; if (page > cap) hasMore = false
NextPage(l) ==
    [l EXCEPT !.page = @ + 1,
              !.hasMore = l.hasMore /\ ~(l.page + 1 > PageCap(l.domain)),
              !.stop = IF l.stop # "none" THEN l.stop
                       ELSE IF l.page + 1 > PageCap(l.domain) THEN "cap"
                       ELSE "none"]

\* a page of which at least one record is kept: the run of matchless pages
\* is reset
PageWithMatch ==
    /\ Looping
    /\ HasClientFilter(lib.domain) => lib.all < MaxMatchPages
    /\ lib' = EndOfIteration(NextPage([Requested(lib) EXCEPT
                                          !.all = @ + 1,
                                          !.consecutiveEmptyPages = 0]))
    /\ UNCHANGED processVars

\* a page that has records of which none is kept
PageMatchless ==
    /\ Looping
    /\ HasClientFilter(lib.domain)
    /\ LET run == lib.consecutiveEmptyPages + 1
           stopped == lib.isStatusFiltered /\ RunTooLong(run)
       IN lib' = EndOfIteration(NextPage([Requested(lib) EXCEPT
                                   !.consecutiveEmptyPages =
                                       IF lib.isStatusFiltered THEN run ELSE @,
                                   !.hasMore = ~stopped,
                                   !.stop = IF stopped THEN "matchless" ELSE @]))
    /\ UNCHANGED processVars

AfterPageFailureMutant(l, why) == [l EXCEPT !.stop = why]

\* hasMore = false, in the else branch of response.data?.s and in the catch
AfterPageFailure(l, why) == [l EXCEPT !.hasMore = FALSE, !.stop = why]

\* console.warn('... list API returned s=false'); hasMore = false
PageUnsuccessful ==
    /\ Looping
    /\ lib' = EndOfIteration(AfterPageFailure(Requested(lib), "unsuccessful"))
    /\ UNCHANGED processVars

\* catch (error): hasMore = false
PageThrows ==
    /\ Looping
    /\ lib' = EndOfIteration(AfterPageFailure(Requested(lib), "error"))
    /\ UNCHANGED processVars

ListNext ==
    \/ PageEmpty
    \/ PageWithMatch
    \/ PageMatchless
    \/ PageUnsuccessful
    \/ PageThrows

ListSpec == ListInit /\ [][ListNext]_vars

\* The loop body runs to its end once the request is answered.
ListFairSpec == ListSpec /\ WF_vars(ListNext)

\* C17 as stated: with a status filter the listing is stopped by the
\* matchless-page rule when the run of consecutive matchless pages exceeds
\* 30, and not before.
C17_StopsWhenRunExceedsThreshold ==
    (lib.stop = "matchless") => lib.consecutiveEmptyPages > 30

\* C17 (amended): whatever the remote API answers, every listing returns;
\* it requests at most its page cap (500 invoices, 200 POs, 500 SOs); it
\* requests no page after a page with zero records or after any other stop;
\* with a status filter (SO listing) it stops when the run of consecutive
\* matchless pages reaches 30, the run being reset by any page with a match;
\* without a status filter no run is counted and the rule never stops it.
C17_StopRuleAndTermination ==
    /\ <>(lib.ret # NotReturned)
    /\ [](/\ lib.requests <= PageCap(lib.domain)
          /\ (lib.ret # NotReturned) <=> (lib.stop # "none")
          /\ (lib.stop = "matchless")
                 <=> (lib.isStatusFiltered /\ lib.consecutiveEmptyPages >= 30)
          /\ lib.consecutiveEmptyPages <= 30
          /\ (lib.stop = "cap") => lib.requests = PageCap(lib.domain)
          /\ ~lib.isStatusFiltered => lib.consecutiveEmptyPages = 0)
    /\ [][/\ lib'.requests # lib.requests
                => lib.stop = "none" /\ lib'.requests = lib.requests + 1
          /\ lib'.all # lib.all => lib'.consecutiveEmptyPages = 0]_vars

\* A status-filtered SO listing kept a page, which reset the run, and was
\* then stopped by the matchless-page rule.
C17_Witness ==
    /\ lib.fn = "list" /\ lib.isStatusFiltered
    /\ lib.stop = "matchless" /\ lib.ret = 1
    /\ lib.requests > 32

PageFailures == {"unsuccessful", "error"}

\* C18: when a page request of a listing throws or is answered with
\* success=false, the listing returns (it does not throw), that page has
\* been requested once, no further page is requested, and the value returned
\* is what was collected from the pages before it.
C18_ListingFailure ==
    /\ [](lib.stop \in PageFailures =>
             /\ ~lib.hasMore
             /\ lib.ret = lib.all
             /\ lib.requests = lib.page
             /\ lib.all <= lib.page - 1
             /\ lib.domain = "invoice" => lib.all = lib.page - 1)
    /\ [][(lib.stop = "none" /\ lib'.stop \in PageFailures) =>
             /\ lib'.all = lib.all
             /\ lib'.ret = lib.all
             /\ lib'.page = lib.page
             /\ lib'.requests = lib.requests + 1]_vars
    /\ [][lib.stop \in PageFailures => lib' = lib]_vars

\* The third page request of an invoice listing threw; the two pages before
\* it are returned.
C18_Witness ==
    /\ lib.fn = "list" /\ lib.domain = "invoice"
    /\ lib.stop = "error"
    /\ lib.page = 3 /\ lib.ret = 2

(***************************************************************************)
(* Sales aggregation of fetchAllSalesData.                                 *)
(*                                                                         *)
(* The quantities and amounts are JavaScript numbers: every += rounds its  *)
(* sum to the significand of the format, ties to even.  The model keeps    *)
(* that rule with a significand of MantissaBits bits (53 in binary64) over *)
(* values counted in units of the smallest quantity.  The same list of     *)
(* invoices is aggregated twice, in the order given and in a permutation   *)
(* of it, one invoice of each per step.                                    *)
(***************************************************************************)
MantissaBits == 3

MaxInvoices == 3

MaxMonth == 2

RECURSIVE Pow2(_)
Pow2(e) == IF e = 0 THEN 1 ELSE 2 * Pow2(e - 1)

RECURSIVE Quantum(_, _)
\* the spacing of the representable values around x
Quantum(x, q) == IF x < Pow2(MantissaBits) * q THEN q ELSE Quantum(x, 2 * q)

\* round to nearest representable value, ties to even
Round(x) ==
    LET q == Quantum(x, 1)
        lo == (x \div q) * q
        r == x - lo
    IN IF 2 * r < q THEN lo
       ELSE IF 2 * r > q THEN lo + q
       ELSE IF (lo \div q) % 2 = 0 THEN lo ELSE lo + q

\* a + b on numbers
Add(a, b) == Round(a + b)

\* a * b on numbers
Mul(a, b) == Round(a * b)

Months == 1..MaxMonth

InvoiceBranches == {Undefined, 1}

\* Detail lines as fetchInvoiceDetail delivers them; 0 stands for a field
\* that is absent or zero.
DetailLines ==
    {[itemNo |-> 1, quantity |-> 1, quantityInBase |-> 2, totalPrice |-> 0, unitPrice |-> 3],
     [itemNo |-> 1, quantity |-> 2, quantityInBase |-> 0, totalPrice |-> 7, unitPrice |-> 3],
     [itemNo |-> 1, quantity |-> 7, quantityInBase |-> 7, totalPrice |-> 1, unitPrice |-> 0],
     [itemNo |-> 2, quantity |-> 1, quantityInBase |-> 7, totalPrice |-> 2, unitPrice |-> 1],
     [itemNo |-> 2, quantity |-> 2, quantityInBase |-> 1, totalPrice |-> 0, unitPrice |-> 1],
     [itemNo |-> 2, quantity |-> 7, quantityInBase |-> 0, totalPrice |-> 7, unitPrice |-> 7]}

InvoiceRecords ==
    [monthKey : Months, branchId : InvoiceBranches, detailItem : DetailLines]

\* a || b on numbers
OrElse(a, b) == IF a # 0 THEN a ELSE b

NewEntry == [totalQty |-> 0, totalQtyBox |-> 0, totalRevenue |-> 0,
             monthlyData |-> << >>]

NewBucket == [qty |-> 0, qtyBox |-> 0, revenue |-> 0]

\* salesMap.get(itemNo) || {...}; entry.total* += ...; curr.* += ...;
\* entry.monthlyData.set(monthKey, curr); salesMap.set(itemNo, entry)
AddLine(map, monthKey, d) ==
    LET qtyPcs == OrElse(d.quantityInBase, d.quantity)
        qtyBox == d.quantity
        lineRevenue == OrElse(d.totalPrice, Mul(d.quantity, d.unitPrice))
        entry == IF d.itemNo \in DOMAIN map THEN map[d.itemNo] ELSE NewEntry
        curr == IF monthKey \in DOMAIN entry.monthlyData
                THEN entry.monthlyData[monthKey] ELSE NewBucket
        bucket == [qty |-> Add(curr.qty, qtyPcs),
                   qtyBox |-> Add(curr.qtyBox, qtyBox),
                   revenue |-> Add(curr.revenue, lineRevenue)]
        updated == [totalQty |-> Add(entry.totalQty, qtyPcs),
                    totalQtyBox |-> Add(entry.totalQtyBox, qtyBox),
                    totalRevenue |-> Add(entry.totalRevenue, lineRevenue),
                    monthlyData |->
                        [m \in DOMAIN entry.monthlyData \cup {monthKey} |->
                            IF m = monthKey THEN bucket ELSE entry.monthlyData[m]]]
    IN [i \in DOMAIN map \cup {d.itemNo} |->
           IF i = d.itemNo THEN updated ELSE map[i]]

NoMaps == [salesMap |-> << >>, branchSalesMaps |-> << >>]

\* the body of invoices.forEach for one invoice of an all-branch sync
AddInvoice(maps, inv) ==
    [salesMap |-> AddLine(maps.salesMap, inv.monthKey, inv.detailItem),
     branchSalesMaps |->
        IF Truthy(inv.branchId)
        THEN LET branchMap == IF inv.branchId \in DOMAIN maps.branchSalesMaps
                              THEN maps.branchSalesMaps[inv.branchId] ELSE << >>
             IN [b \in DOMAIN maps.branchSalesMaps \cup {inv.branchId} |->
                    IF b = inv.branchId
                    THEN AddLine(branchMap, inv.monthKey, inv.detailItem)
                    ELSE maps.branchSalesMaps[b]]
        ELSE maps.branchSalesMaps]

Orders(n) == {p \in [1..n -> 1..n] : \A x, y \in 1..n : p[x] = p[y] => x = y}

AggInit ==
    /\ AtRest
    /\ \E n \in 0..MaxInvoices :
         \E invs \in [1..n -> InvoiceRecords], p \in Orders(n) :
            lib = [fn |-> "aggregate", invoices |-> invs,
                   permuted |-> [x \in 1..n |-> invs[p[x]]],
                   idx |-> 0, first |-> NoMaps, second |-> NoMaps]

\* one iteration of invoices.forEach, in each of the two orders
AggregateInvoice ==
    /\ lib.fn = "aggregate"
    /\ lib.idx < Len(lib.invoices)
    /\ lib' = [lib EXCEPT
                 !.idx = @ + 1,
                 !.first = AddInvoice(@, lib.invoices[lib.idx + 1]),
                 !.second = AddInvoice(@, lib.permuted[lib.idx + 1])]
    /\ UNCHANGED processVars

AggNext == AggregateInvoice

AggSpec == AggInit /\ [][AggNext]_vars

Aggregated == lib.fn = "aggregate" /\ lib.idx = Len(lib.invoices)

\* C19: the aggregation of a list of invoices and of any permutation of it
\* give the same combined map and the same per-branch maps (totals and
\* monthly buckets of every item).
C19_OrderIndependence == Aggregated => lib.first = lib.second

RECURSIVE SumBuckets(_, _, _)
SumBuckets(monthlyData, ms, field) ==
    IF ms = {} THEN 0
    ELSE LET m == CHOOSE x \in ms : \A y \in ms : x <= y
         IN Add(monthlyData[m][field],
                SumBuckets(monthlyData, ms \ {m}, field))

Additive(entry) ==
    LET md == entry.monthlyData
    IN /\ SumBuckets(md, DOMAIN md, "qty") = entry.totalQty
       /\ SumBuckets(md, DOMAIN md, "qtyBox") = entry.totalQtyBox
       /\ SumBuckets(md, DOMAIN md, "revenue") = entry.totalRevenue

\* C20: after aggregating any list of invoices, in the combined map and in
\* every per-branch map the monthly buckets of every item add up to its
\* totals: qty to totalQty, qtyBox to totalQtyBox, revenue to totalRevenue.
C20_Additivity ==
    Aggregated =>
        /\ \A i \in DOMAIN lib.first.salesMap : Additive(lib.first.salesMap[i])
        /\ \A b \in DOMAIN lib.first.branchSalesMaps :
              \A i \in DOMAIN lib.first.branchSalesMaps[b] :
                 Additive(lib.first.branchSalesMaps[b][i])

(***************************************************************************)
(* aggregatePOOutstanding of accurate.ts.  A status name is a word in a    *)
(* written form (capitalised, upper case, padded with blanks, or plain     *)
(* lower case); toLowerCase().trim() maps every form to the plain word.    *)
(* One action is one iteration of pos.forEach; a PO has one detail line.   *)
(***************************************************************************)
MaxPOs == 2

CLOSED_STATUSES == {"ditutup", "closed", "selesai", "void", "cancel", "batal"}

StatusNames ==
    {[word |-> "ditutup", form |-> "capital"],
     [word |-> "closed", form |-> "upper"],
     [word |-> "batal", form |-> "padded"],
     [word |-> "menunggu diproses", form |-> "capital"],
     [word |-> "", form |-> "plain"]}

\* (po.statusName || '').toLowerCase().trim()
Normalised(statusName) == [statusName EXCEPT !.form = "plain"]

IsClosedMutant(statusName) ==
    statusName.form = "plain" /\ statusName.word \in CLOSED_STATUSES

\* CLOSED_STATUSES.includes(poStatus)
IsClosed(statusName) == Normalised(statusName).word \in CLOSED_STATUSES

PORecords ==
    [statusName : StatusNames, branchId : {Undefined, 1}, itemNo : {0, 1},
     quantity : {0, 3}, shipQuantity : {0, 2, 5}]

\* Math.max(0, d.quantity - d.shipQuantity)
Outstanding(d) == IF d.quantity - d.shipQuantity > 0
                  THEN d.quantity - d.shipQuantity ELSE 0

\* map.set(itemNo, (map.get(itemNo) || 0) + outstanding)
AddOutstanding(map, itemNo, outstanding) ==
    [i \in DOMAIN map \cup {itemNo} |->
        IF i = itemNo
        THEN Add(IF itemNo \in DOMAIN map THEN map[itemNo] ELSE 0, outstanding)
        ELSE map[i]]

\* the body of pos.forEach for one PO
AddPO(maps, po) ==
    IF IsClosed(po.statusName) \/ po.itemNo = 0 \/ ~(Outstanding(po) > 0)
    THEN maps
    ELSE [combined |-> AddOutstanding(maps.combined, po.itemNo, Outstanding(po)),
          perBranch |->
             IF Truthy(po.branchId)
             THEN LET branchMap == IF po.branchId \in DOMAIN maps.perBranch
                                   THEN maps.perBranch[po.branchId] ELSE << >>
                  IN [b \in DOMAIN maps.perBranch \cup {po.branchId} |->
                         IF b = po.branchId
                         THEN AddOutstanding(branchMap, po.itemNo, Outstanding(po))
                         ELSE maps.perBranch[b]]
             ELSE maps.perBranch]

POAggInit ==
    /\ AtRest
    /\ \E n \in 0..MaxPOs : \E pos \in [1..n -> PORecords] :
          lib = [fn |-> "aggregatePOOutstanding", pos |-> pos, idx |-> 0,
                 maps |-> [combined |-> << >>, perBranch |-> << >>]]

AggregatePO ==
    /\ lib.fn = "aggregatePOOutstanding"
    /\ lib.idx < Len(lib.pos)
    /\ lib' = [lib EXCEPT !.idx = @ + 1,
                          !.maps = AddPO(@, lib.pos[lib.idx + 1])]
    /\ UNCHANGED processVars

POAggSpec == POAggInit /\ [][AggregatePO]_vars

\* the outstanding quantity read from a map: absent means none
OutstandingOf(map, itemNo) == IF itemNo \in DOMAIN map THEN map[itemNo] ELSE 0

RECURSIVE OpenSum(_, _, _, _)
\* the sum of max(0, quantity - shipQuantity) over the lines for itemNo of
\* the first n POs that are not closed (and, if b is given, are of branch b)
OpenSum(pos, n, itemNo, b) ==
    IF n = 0 THEN 0
    ELSE LET po == pos[n]
             counts == /\ Normalised(po.statusName).word \notin CLOSED_STATUSES
                       /\ po.itemNo = itemNo
                       /\ b # Undefined => po.branchId = b
         IN IF counts
            THEN Add(OpenSum(pos, n - 1, itemNo, b),
                     IF po.quantity > po.shipQuantity
                     THEN po.quantity - po.shipQuantity ELSE 0)
            ELSE OpenSum(pos, n - 1, itemNo, b)

\* C21: for every item the PO outstanding quantity, in the combined map and
\* in the map of every branch, is the sum of max(0, quantity - shipQuantity)
\* over the lines of the POs whose status, compared without regard to case,
\* is not a closed one; it is never negative; a PO with status "Ditutup"
\* changes no quantity.
C21_POOutstanding ==
    /\ [](lib.idx = Len(lib.pos) =>
             \A itemNo \in {1} :
                /\ OutstandingOf(lib.maps.combined, itemNo)
                       = OpenSum(lib.pos, Len(lib.pos), itemNo, Undefined)
                /\ OutstandingOf(lib.maps.combined, itemNo) >= 0
                /\ \A b \in {1} :
                      OutstandingOf(IF b \in DOMAIN lib.maps.perBranch
                                    THEN lib.maps.perBranch[b] ELSE << >>, itemNo)
                          = OpenSum(lib.pos, Len(lib.pos), itemNo, b))
    /\ [][lib.pos[lib.idx + 1].statusName = [word |-> "ditutup", form |-> "capital"]
             => lib'.maps = lib.maps]_vars

\* An open PO and a "Ditutup" PO with outstanding lines of the same item
\* were aggregated: only the open one counts.
C21_Witness ==
    /\ lib.fn = "aggregatePOOutstanding" /\ lib.idx = 2
    /\ lib.pos[1].statusName.word = "menunggu diproses"
    /\ lib.pos[2].statusName.word = "ditutup"
    /\ lib.pos[1].itemNo = 1 /\ lib.pos[2].itemNo = 1
    /\ lib.pos[1].quantity = 3 /\ lib.pos[1].shipQuantity = 2
    /\ lib.pos[2].quantity = 3 /\ lib.pos[2].shipQuantity = 0
    /\ lib.maps.combined[1] = 1

\* C22: a failure of the PO-outstanding phase does not fail the sync: in a
\* scheduled job the attempt goes on to the commit of the sales and
\* warehouse-stock results, and a manual sync ends in 'done'.
C22_NonCriticalPOPhase ==
    [][/\ \A j \in Jobs :
             (pc[j] = "poOutstanding" /\ pc'[j] # pc[j]) => pc'[j] = "saveSales"
       /\ \A p \in Posts :
             (postPc[p] = "poOutstanding" /\ postPc'[p] # postPc[p])
                 => postPc'[p] = "done" /\ syncState' = "done"]_vars

(***************************************************************************)
(* Scheduler configuration: updateConfig, saveConfig, loadConfig and       *)
(* restartScheduler of scheduler.ts.  A cron expression is described by    *)
(* its number of fields and by whether every field is well formed;         *)
(* cron.validate of node-cron accepts five fields, or six with seconds.    *)
(***************************************************************************)
CronExpressions == [fields : 4..6, wellFormed : BOOLEAN]

\* cron.validate(config.cronExpression)
Validate(e) == e.fields \in {5, 6} /\ e.wellFormed

DEFAULT_CONFIG == [enabled |-> FALSE,
                   cronExpression |-> [fields |-> 5, wellFormed |-> TRUE]]

NoSetting == [enabled |-> FALSE, cronExpression |-> [fields |-> 0, wellFormed |-> FALSE]]

\* loadConfig: the stored setting over the defaults
LoadConfig(setting) == IF setting = NoSetting THEN DEFAULT_CONFIG ELSE setting

NoTask == [fields |-> 0, wellFormed |-> FALSE]

ConfigInit ==
    /\ AtRest
    /\ lib = [fn |-> "config", setting |-> NoSetting, task |-> NoTask,
              initialized |-> FALSE, pc |-> "idle", newConfig |-> DEFAULT_CONFIG]

\* updateConfig(updates): const newConfig = { ...config, ...updates }
UpdateConfig ==
    /\ lib.fn = "config" /\ lib.pc = "idle"
    /\ \E enabled \in BOOLEAN, e \in CronExpressions, setsCron \in BOOLEAN :
          lib' = [lib EXCEPT
                    !.pc = "saveConfig",
                    !.newConfig =
                        [enabled |-> enabled,
                         cronExpression |->
                            IF setsCron THEN e
                            ELSE LoadConfig(lib.setting).cronExpression]]
    /\ UNCHANGED processVars

\* await saveConfig(newConfig), with whatever newConfig holds: the upsert,
\* or 'Database Error' thrown to the route (HTTP 500)
SaveConfig ==
    /\ lib.fn = "config" /\ lib.pc = "saveConfig"
    /\ \E ok \in BOOLEAN :
          lib' = IF ok
                 THEN [lib EXCEPT !.setting = lib.newConfig, !.pc = "restart"]
                 ELSE [lib EXCEPT !.pc = "idle"]
    /\ UNCHANGED processVars

\* restartScheduler: stopScheduler, then startScheduler, which registers the
\* cron task only for an enabled config with an expression that validates
RestartScheduler ==
    /\ lib.fn = "config" /\ lib.pc = "restart"
    /\ LET config == LoadConfig(lib.setting)
       IN lib' = [lib EXCEPT
                    !.pc = "idle",
                    !.initialized = TRUE,
                    !.task = IF config.enabled /\ Validate(config.cronExpression)
                             THEN config.cronExpression ELSE NoTask]
    /\ UNCHANGED processVars

ConfigNext == UpdateConfig \/ SaveConfig \/ RestartScheduler

ConfigSpec == ConfigInit /\ [][ConfigNext]_vars

\* C23: an update whose cron expression is not a valid 5-field expression
\* is rejected before it is persisted: the persisted scheduler config
\* always holds a valid expression.
C23_CronValidatedBeforePersistence ==
    LoadConfig(lib.setting).cronExpression.wellFormed
        /\ LoadConfig(lib.setting).cronExpression.fields = 5


(***************************************************************************)
(* The inventory analytics request (GET /api/inventory).  The request      *)
(* loads the sales cache once, decides one dataSource for the whole        *)
(* response, falls back to estimateDemand for every item when the cache    *)
(* is absent or empty, derives the demand metrics and the status of each   *)
(* item, and finishes with the ABC pass over the sorted list.              *)
(*                                                                         *)
(* Units: avgDailyUsage and dailyStdDev are kept in hundredths (the code   *)
(* rounds both with toFixed(2)), daysOfSupply in tenths (toFixed(1)).      *)
(* The monthly variance that yields dailyStdDev is an input of the model.  *)
(***************************************************************************)
MaxItems == 2

DaysSinceStart == 100

Z_SCORE_95 == 1645

LEAD_TIME_DAYS == 14

SQRT_LEAD_TIME_DAYS == 3742

DOS_CAP == 99999

Quantities == {0, 20, 40, 200}

NoCache == [found |-> FALSE]

\* salesData of an item as aggregateInvoiceDetail leaves it in the cache
CachedSalesData ==
    { [totalQty |-> 200, dailyStdDev |-> 81, totalRevenue |-> 80],
      [totalQty |-> 200, dailyStdDev |-> 0,  totalRevenue |-> 15],
      [totalQty |-> 50,  dailyStdDev |-> 0,  totalRevenue |-> 5] }

ZeroSalesData == [totalQty |-> 0, dailyStdDev |-> 0, totalRevenue |-> 0]

RoundDiv(a, b) == (2 * a + b) \div (2 * b)

CeilDiv(a, b) == (a + b - 1) \div b

\* estimateDemand: the base daily demand is picked by the stock tier (the
\* pseudo-random draw is fixed at a value inside each tier's range, the price
\* at the lowest tier), the total is that rate over the analysis window.
BaseDailyDemand(qty) ==
    IF qty = 0 THEN 0
    ELSE IF qty <= 10 THEN 7
    ELSE IF qty <= 50 THEN 3
    ELSE IF qty <= 200 THEN 2
    ELSE IF qty <= 1000 THEN 1
    ELSE 0

estimateDemand(item) ==
    [totalQty |-> BaseDailyDemand(item.quantity) * DaysSinceStart,
     dailyStdDev |-> IF BaseDailyDemand(item.quantity) > 0 THEN 81 ELSE 0,
     totalRevenue |-> BaseDailyDemand(item.quantity) * DaysSinceStart]

AvgDailyUsage(salesData) == RoundDiv(salesData.totalQty * 100, DaysSinceStart)

SafetyStock(salesData) ==
    CeilDiv(Z_SCORE_95 * salesData.dailyStdDev * SQRT_LEAD_TIME_DAYS,
            1000 * 100 * 1000)

ReorderPoint(avgDailyUsage, safetyStock) ==
    CeilDiv(avgDailyUsage * LEAD_TIME_DAYS + 100 * safetyStock, 100)

DaysOfSupply(quantity, avgDailyUsage) ==
    IF avgDailyUsage > 0
    THEN Min({RoundDiv(quantity * 1000, avgDailyUsage), DOS_CAP * 10})
    ELSE DOS_CAP * 10

StatusMutant(quantity, safetyStock, reorderPoint, avgDailyUsage, daysOfSupply) ==
    IF quantity <= reorderPoint /\ avgDailyUsage > 0 THEN "REORDER"
    ELSE IF quantity <= safetyStock /\ avgDailyUsage > 0 THEN "CRITICAL"
    ELSE IF daysOfSupply > 900 \/ (avgDailyUsage = 0 /\ quantity > 0)
         THEN "OVERSTOCK"
    ELSE "OK"

Status(quantity, safetyStock, reorderPoint, avgDailyUsage, daysOfSupply) ==
    IF quantity <= safetyStock /\ avgDailyUsage > 0 THEN "CRITICAL"
    ELSE IF quantity <= reorderPoint /\ avgDailyUsage > 0 THEN "REORDER"
    ELSE IF daysOfSupply > 900 \/ (avgDailyUsage = 0 /\ quantity > 0)
         THEN "OVERSTOCK"
    ELSE "OK"

\* pct <= percent/100 with pct = totalRevenue > 0 ? cumRevenue / totalRevenue : 0
ShareAtMost(cumRevenue, totalRevenue, percent) ==
    IF totalRevenue > 0 THEN 100 * cumRevenue <= percent * totalRevenue
    ELSE TRUE

AbcClassMutant(cumRevenue, totalRevenue) ==
    IF ShareAtMost(cumRevenue, totalRevenue, 79) THEN "A"
    ELSE IF ShareAtMost(cumRevenue, totalRevenue, 95) THEN "B"
    ELSE "C"

AbcClass(cumRevenue, totalRevenue) ==
    IF ShareAtMost(cumRevenue, totalRevenue, 80) THEN "A"
    ELSE IF ShareAtMost(cumRevenue, totalRevenue, 95) THEN "B"
    ELSE "C"

\* Array.prototype.sort with (a, b) => b.annualRevenue - a.annualRevenue:
\* descending, equal revenues keep their order.
RECURSIVE SortByRevenue(_)
SortByRevenue(items) ==
    IF Len(items) <= 1 THEN items
    ELSE LET rest == SortByRevenue(Tail(items))
             item == Head(items)
             before == { i \in 1..Len(rest) :
                           rest[i].annualRevenue > item.annualRevenue }
             k == Cardinality(before)
         IN  SubSeq(rest, 1, k) \o <<item>> \o SubSeq(rest, k + 1, Len(rest))

RECURSIVE CumRevenue(_, _)
CumRevenue(items, n) ==
    IF n = 0 THEN 0 ELSE CumRevenue(items, n - 1) + items[n].annualRevenue

AbcPass(items) ==
    LET sorted == SortByRevenue(items)
        totalRevenue == CumRevenue(sorted, Len(sorted))
    IN  [i \in 1..Len(sorted) |->
            [sorted[i] EXCEPT
                !.abcClass = AbcClass(CumRevenue(sorted, i), totalRevenue)]]

AccurateItems ==
    UNION { [1..n -> [quantity : Quantities]] : n \in 1..MaxItems }

\* what loadSalesCache returns: null, or a map from item numbers to salesData
SalesCaches(n) ==
    {NoCache} \cup
    { [found |-> TRUE, map |-> m] :
        m \in UNION { [S -> CachedSalesData] : S \in SUBSET (1..n) } }

InventoryInit ==
    /\ AtRest
    /\ \E accurateItems \in AccurateItems :
       \E cachedSales \in SalesCaches(Len(accurateItems)) :
          lib = [fn |-> "inventory", pc |-> "loadSales",
                 accurateItems |-> accurateItems,
                 cachedSales |-> cachedSales,
                 dataSource |-> "ESTIMATED",
                 itemSalesMap |-> << >>,
                 estimated |-> {},
                 inventoryItems |-> << >>]

\* cachedSales && cachedSales.size > 0
HasRealSalesMutant(cachedSales) == cachedSales.found

HasRealSales(cachedSales) ==
    cachedSales.found /\ DOMAIN cachedSales.map # {}

InventoryLoadSales ==
    /\ lib.fn = "inventory"
    /\ lib.pc = "loadSales"
    /\ lib' = IF HasRealSales(lib.cachedSales)
              THEN [lib EXCEPT !.dataSource = "API",
                               !.itemSalesMap = lib.cachedSales.map,
                               !.pc = "estimate"]
              ELSE [lib EXCEPT !.pc = "estimate"]
    /\ UNCHANGED processVars

InventoryEstimate ==
    /\ lib.fn = "inventory"
    /\ lib.pc = "estimate"
    /\ lib' = IF lib.dataSource = "ESTIMATED"
              THEN [lib EXCEPT
                      !.itemSalesMap =
                          [no \in DOMAIN lib.accurateItems |->
                              estimateDemand(lib.accurateItems[no])],
                      !.estimated = DOMAIN lib.accurateItems,
                      !.pc = "transform"]
              ELSE [lib EXCEPT !.pc = "transform"]
    /\ UNCHANGED processVars

SalesDataOf(no) ==
    IF no \in DOMAIN lib.itemSalesMap THEN lib.itemSalesMap[no]
    ELSE ZeroSalesData

Analyse(no) ==
    LET salesData == SalesDataOf(no)
        quantity == lib.accurateItems[no].quantity
        avgDailyUsage == AvgDailyUsage(salesData)
        safetyStock == SafetyStock(salesData)
        reorderPoint == ReorderPoint(avgDailyUsage, safetyStock)
        daysOfSupply == DaysOfSupply(quantity, avgDailyUsage)
    IN  [itemNo |-> no,
         stock |-> quantity,
         avgDailyUsage |-> avgDailyUsage,
         safetyStock |-> safetyStock,
         reorderPoint |-> reorderPoint,
         daysOfSupply |-> daysOfSupply,
         status |-> Status(quantity, safetyStock, reorderPoint,
                           avgDailyUsage, daysOfSupply),
         annualRevenue |-> salesData.totalRevenue,
         dataSource |-> lib.dataSource,
         abcClass |-> "C"]

InventoryRespond ==
    /\ lib.fn = "inventory"
    /\ lib.pc = "transform"
    /\ lib' = [lib EXCEPT
                 !.inventoryItems =
                     AbcPass([no \in DOMAIN lib.accurateItems |-> Analyse(no)]),
                 !.pc = "done"]
    /\ UNCHANGED processVars

InventoryNext ==
    \/ InventoryLoadSales
    \/ InventoryEstimate
    \/ InventoryRespond

InventorySpec == InventoryInit /\ [][InventoryNext]_vars

Responded == lib.fn = "inventory" /\ lib.pc = "done"

FirstMatch(item) ==
    CASE item.stock <= item.safetyStock /\ item.avgDailyUsage > 0 -> "CRITICAL"
      [] ~(item.stock <= item.safetyStock /\ item.avgDailyUsage > 0)
         /\ item.stock <= item.reorderPoint /\ item.avgDailyUsage > 0 -> "REORDER"
      [] ~(item.stock <= item.reorderPoint /\ item.avgDailyUsage > 0)
         /\ ~(item.stock <= item.safetyStock /\ item.avgDailyUsage > 0)
         /\ (item.daysOfSupply > 900
                \/ (item.avgDailyUsage = 0 /\ item.stock > 0)) -> "OVERSTOCK"
      [] OTHER -> "OK"

\* C24: every analysed item carries exactly one of the four statuses, the
\* first that matches in the order CRITICAL (stock <= safetyStock and
\* avgDailyUsage > 0), REORDER (stock <= reorderPoint and avgDailyUsage > 0),
\* OVERSTOCK (daysOfSupply > 90, or avgDailyUsage = 0 and stock > 0), OK;
\* an item with stock 0, safetyStock 5 and avgDailyUsage 2 is CRITICAL.
C24_StatusPrecedence ==
    Responded =>
        \A i \in DOMAIN lib.inventoryItems :
            LET item == lib.inventoryItems[i]
            IN  /\ item.status \in {"CRITICAL", "REORDER", "OVERSTOCK", "OK"}
                /\ item.status = FirstMatch(item)
                /\ (item.stock = 0 /\ item.safetyStock = 5
                        /\ item.avgDailyUsage = 200
                    => item.status = "CRITICAL")

C24_Witness ==
    /\ Responded
    /\ \E i \in DOMAIN lib.inventoryItems :
          LET item == lib.inventoryItems[i]
          IN  /\ item.stock = 0 /\ item.safetyStock = 5
              /\ item.avgDailyUsage = 200
              /\ item.daysOfSupply = 0
              /\ item.status = "CRITICAL"


(***************************************************************************)
(* The ABC pass on its own: the revenue lists are the inputs, one step     *)
(* sorts the list and classifies every item by its cumulative share.       *)
(***************************************************************************)
MaxAbcItems == 3

Revenues == {0, 1, 4, 15, 80}

\* 21 items of total revenue 100 whose cumulative shares, once sorted, pass
\* through 79%, 81%, 94%, 95% and 96%
ExampleRevenues == [i \in 1..21 |-> IF i <= 19 THEN 1 ELSE IF i = 20 THEN 79 ELSE 2]

RevenueLists ==
    {ExampleRevenues} \cup
    UNION { [1..n -> Revenues] : n \in 1..MaxAbcItems }

AbcInit ==
    /\ AtRest
    /\ \E revenues \in RevenueLists :
          lib = [fn |-> "abc", pc |-> "classify",
                 items |-> [i \in DOMAIN revenues |->
                               [annualRevenue |-> revenues[i], abcClass |-> "C"]],
                 inventoryItems |-> << >>]

AbcClassify ==
    /\ lib.fn = "abc"
    /\ lib.pc = "classify"
    /\ lib' = [lib EXCEPT !.inventoryItems = AbcPass(lib.items), !.pc = "done"]
    /\ UNCHANGED processVars

AbcNext == AbcClassify

AbcSpec == AbcInit /\ [][AbcNext]_vars

Classified == lib.fn = "abc" /\ lib.pc = "done"

RECURSIVE RevenueUpTo(_, _)
RevenueUpTo(items, n) ==
    IF n = 0 THEN 0 ELSE RevenueUpTo(items, n - 1) + items[n].annualRevenue

Occurrences(items, revenue) ==
    Cardinality({ i \in DOMAIN items : items[i].annualRevenue = revenue })

\* C25: the classified list is the input sorted descending by annual revenue;
\* with the cumulative revenue up to and including each item taken as a share
\* of the total (0 when the total is 0), the item is A iff the share is at
\* most 80%, B iff it is above 80% and at most 95%, C otherwise; items at
\* cumulative shares 0.79, 0.81, 0.94, 0.96 are A, B, B, C.
C25_AbcGlobalPass ==
    Classified =>
        LET out == lib.inventoryItems
            total == RevenueUpTo(out, Len(out))
        IN  /\ Len(out) = Len(lib.items)
            /\ \A i \in DOMAIN lib.items :
                  Occurrences(out, lib.items[i].annualRevenue)
                      = Occurrences(lib.items, lib.items[i].annualRevenue)
            /\ \A i \in 1..(Len(out) - 1) :
                  out[i].annualRevenue >= out[i + 1].annualRevenue
            /\ \A i \in DOMAIN out :
                  LET cum == IF total > 0 THEN RevenueUpTo(out, i) ELSE 0
                      whole == IF total > 0 THEN total ELSE 1
                  IN  /\ out[i].abcClass = "A" <=> 100 * cum <= 80 * whole
                      /\ out[i].abcClass = "B" <=>
                            100 * cum > 80 * whole /\ 100 * cum <= 95 * whole
                      /\ out[i].abcClass = "C" <=> 100 * cum > 95 * whole
                      /\ (100 * cum = 79 * whole => out[i].abcClass = "A")
                      /\ (100 * cum = 81 * whole => out[i].abcClass = "B")
                      /\ (100 * cum = 94 * whole => out[i].abcClass = "B")
                      /\ (100 * cum = 96 * whole => out[i].abcClass = "C")

C25_Witness ==
    /\ Classified
    /\ lib.items[1].annualRevenue < lib.items[Len(lib.items)].annualRevenue
    /\ LET out == lib.inventoryItems
           total == RevenueUpTo(out, Len(out))
       IN  /\ total > 0
           /\ \A share \in {79, 81, 94, 96} :
                 \E i \in DOMAIN out : 100 * RevenueUpTo(out, i) = share * total
           /\ {out[i].abcClass : i \in DOMAIN out} = {"A", "B", "C"}


\* the items the cache holds real aggregated sales for
InCache == IF lib.cachedSales.found THEN DOMAIN lib.cachedSales.map ELSE {}

\* C26 as stated: an item without real sales in the cache gets a synthetic
\* series and is flagged ESTIMATED, and an item is flagged API only when its
\* figures come from its own cached sales.
C26_EstimatedFlaggedPerItem ==
    Responded =>
        \A i \in DOMAIN lib.inventoryItems :
            LET item == lib.inventoryItems[i]
            IN  /\ item.itemNo \notin InCache
                    => item.itemNo \in lib.estimated
                       /\ item.dataSource = "ESTIMATED"
                /\ item.dataSource = "API" => item.itemNo \in InCache

\* C26, amended: the fallback is decided once per request.  When the cache
\* for the request is missing or empty every item gets a synthetic series and
\* is flagged ESTIMATED; otherwise every item is flagged API, no series is
\* synthesised, an item present in the cache uses its cached sales and an
\* item absent from it is analysed with zero sales.  Synthetic figures are
\* never flagged API.
C26_EstimatedFlaggedPerRequest ==
    Responded =>
        \A i \in DOMAIN lib.inventoryItems :
            LET item == lib.inventoryItems[i]
                no == item.itemNo
            IN  /\ InCache = {}
                    => /\ item.dataSource = "ESTIMATED"
                       /\ no \in lib.estimated
                       /\ item.annualRevenue
                             = estimateDemand(lib.accurateItems[no]).totalRevenue
                /\ InCache # {}
                    => /\ item.dataSource = "API"
                       /\ no \notin lib.estimated
                       /\ item.annualRevenue
                             = IF no \in InCache
                               THEN lib.cachedSales.map[no].totalRevenue
                               ELSE 0
                /\ no \in lib.estimated => item.dataSource = "ESTIMATED"

C26_Witness ==
    /\ Responded
    /\ \E i, j \in DOMAIN lib.inventoryItems :
          /\ lib.inventoryItems[i].itemNo \in InCache
          /\ lib.inventoryItems[j].itemNo \notin InCache
          /\ lib.inventoryItems[j].dataSource = "API"
          /\ lib.inventoryItems[j].avgDailyUsage = 0


\* C27: once an attempt has timed out, the pipeline it left behind writes
\* nothing more to the cache store, and it is never still running while a
\* later attempt of the job is in one of its phases.
C27_NoActivityFromAbandonedAttempt ==
    /\ [][\A j \in Jobs : abandoned'[j] < abandoned[j] => cache' = cache]_vars
    /\ [](\A j \in Jobs : abandoned[j] > 0 => pc[j] \notin PhasePcs)


\* C28: while a job started by a scheduled trigger is executing the running
\* flag is set; the end of an earlier job whose flag was force-cleared as
\* stale leaves the flag of the job that took it since.
C28_LockBelongsToRunningJob ==
    \A j \in Jobs :
        trigger[j] = "scheduled" /\ pc[j] \notin {"idle", "done"} => isRunning


(***************************************************************************)
(* The data path of one attempt of a sync job: fetchInvoiceList pages      *)
(* through the invoices, fetchAllSalesData fetches the details and builds  *)
(* the aggregate, executeSyncJob saves it and marks the log row SUCCESS.   *)
(* The server holds `pages` full pages; a sales entry records how many     *)
(* pages of invoices its aggregate was built from and how many the server  *)
(* held.                                                                   *)
(***************************************************************************)
MaxListPages == 4

\* the entry a previous, complete sync left in the cache
PreviousEntry(pages) == [writer |-> "previous", built |-> pages, held |-> pages]

SalesSyncInit ==
    /\ AtRest
    /\ \E pages \in 0..MaxListPages, before \in 0..MaxListPages :
          lib = [fn |-> "salesSync", pc |-> "listing", pages |-> pages,
                 page |-> 1, allInvoices |-> 0, hasMoreEndedBy |-> "none",
                 salesMap |-> 0, entry |-> PreviousEntry(before),
                 log |-> "RUNNING"]

\* response.data.s with a non-empty list: the page is collected, page++
InvoiceListPage ==
    /\ lib.fn = "salesSync" /\ lib.pc = "listing"
    /\ lib.page <= lib.pages
    /\ lib' = [lib EXCEPT !.allInvoices = lib.allInvoices + 1,
                          !.page = lib.page + 1,
                          !.pc = IF lib.page + 1 > INVOICE_MAX_PAGES
                                 THEN "details" ELSE "listing",
                          !.hasMoreEndedBy = IF lib.page + 1 > INVOICE_MAX_PAGES
                                             THEN "cap" ELSE "none"]
    /\ UNCHANGED processVars

\* response.data.s with an empty list: the normal end of the listing
InvoiceListEmptyPage ==
    /\ lib.fn = "salesSync" /\ lib.pc = "listing"
    /\ lib.page = lib.pages + 1
    /\ lib' = [lib EXCEPT !.pc = "details", !.hasMoreEndedBy = "empty"]
    /\ UNCHANGED processVars

\* the page request throws or answers s = false: hasMore = false, and the
\* invoices collected so far are returned
InvoiceListPageFails ==
    /\ lib.fn = "salesSync" /\ lib.pc = "listing"
    /\ lib' = [lib EXCEPT !.pc = "details", !.hasMoreEndedBy = "failure"]
    /\ UNCHANGED processVars

\* fetchDetailsInBatch over the listed ids and the aggregation loop
FetchDetailsAndAggregate ==
    /\ lib.fn = "salesSync" /\ lib.pc = "details"
    /\ lib' = [lib EXCEPT !.salesMap = lib.allInvoices, !.pc = "save"]
    /\ UNCHANGED processVars

\* executeSyncJob after attemptSync: saveSalesCache, then the row is SUCCESS
CommitSales ==
    /\ lib.fn = "salesSync" /\ lib.pc = "save"
    /\ lib' = [lib EXCEPT !.entry = [writer |-> "job", built |-> lib.salesMap,
                                     held |-> lib.pages],
                          !.log = "SUCCESS",
                          !.pc = "done"]
    /\ UNCHANGED processVars

SalesSyncNext ==
    \/ InvoiceListPage
    \/ InvoiceListEmptyPage
    \/ InvoiceListPageFails
    \/ FetchDetailsAndAggregate
    \/ CommitSales

SalesSyncSpec == SalesSyncInit /\ [][SalesSyncNext]_vars

\* C29: the job replaces the sales entry, and is recorded SUCCESS, only with
\* an aggregate built from a listing that ran to its normal end; after a
\* failed page request the previous entry stays.
C29_NoCommitOfTruncatedListing ==
    lib.fn = "salesSync" =>
        /\ lib.entry.writer = "job" => lib.hasMoreEndedBy # "failure"
        /\ lib.log = "SUCCESS" => lib.hasMoreEndedBy # "failure"
        /\ lib.entry.built = lib.entry.held


\* positions of a background pipeline started by the manual sync endpoint
PostPipelinePcs ==
    {"clearing", "listing", "details", "warehouseStock", "saveWarehouse",
     "poOutstanding"}

PostPipelines == {p \in Posts : postPc[p] \in PostPipelinePcs}

\* C30: at most one pipeline started by the manual sync endpoint runs at any
\* time; a POST that finds the status 'running' is answered 409 and starts
\* nothing; once no pipeline is left the status is not 'running'.
C30_OnePipelinePerEndpoint ==
    /\ [](Cardinality(PostPipelines) <= 1)
    /\ [][\A p \in Posts :
            postPc[p] = "none" /\ syncState = "running" /\ postPc'[p] # "none"
                => postPc'[p] = "rejected"]_vars
    /\ [](PostPipelines = {} => syncState # "running")


(***************************************************************************)
(* Cron registration, call by call.  startScheduler is called by the       *)
(* instrumentation hook and by the lazy start of the scheduler API,        *)
(* updateConfig by the API's POST; each call runs up to its next await in  *)
(* one step, and the calls of different requests interleave at the awaits. *)
(* A task carries the number of the call that scheduled it.                *)
(***************************************************************************)
MaxCalls == 2

Calls == 1..MaxCalls

CronSamples ==
    { [fields |-> 5, wellFormed |-> TRUE],
      [fields |-> 6, wellFormed |-> TRUE],
      [fields |-> 5, wellFormed |-> FALSE] }

\* Partial<SchedulerConfig>: the fields the request body carries
NoUpdates ==
    [setsEnabled |-> FALSE, enabled |-> FALSE,
     setsCron |-> FALSE, cronExpression |-> NoTask]

Updates ==
    { [setsEnabled |-> se, enabled |-> e, setsCron |-> sc, cronExpression |-> x] :
        se \in BOOLEAN, e \in BOOLEAN, sc \in BOOLEAN,
        x \in CronSamples \cup {NoTask} } \cap
    { u \in [setsEnabled : BOOLEAN, enabled : BOOLEAN, setsCron : BOOLEAN,
             cronExpression : CronSamples \cup {NoTask}] :
        /\ (~u.setsEnabled => ~u.enabled)
        /\ (u.setsCron <=> u.cronExpression # NoTask) }

\* { ...config, ...updates }
MergeMutant(config, updates) == config

Merge(config, updates) ==
    [enabled |-> IF updates.setsEnabled THEN updates.enabled ELSE config.enabled,
     cronExpression |-> IF updates.setsCron THEN updates.cronExpression
                        ELSE config.cronExpression]

\* the row of the config as an earlier run of the process left it
StoredSettings ==
    { NoSetting,
      [enabled |-> TRUE, cronExpression |-> [fields |-> 5, wellFormed |-> TRUE]],
      [enabled |-> FALSE, cronExpression |-> [fields |-> 5, wellFormed |-> TRUE]] }

IdleCall ==
    [op |-> "none", pc |-> "idle", config |-> DEFAULT_CONFIG,
     updates |-> NoUpdates, newConfig |-> DEFAULT_CONFIG,
     before |-> [setting |-> NoSetting, cronTask |-> 0]]

CronInit ==
    /\ AtRest
    /\ \E setting \in StoredSettings :
          lib = [fn |-> "cron", setting |-> setting, cronTask |-> 0,
                 schedulerInitialized |-> FALSE, active |-> {},
                 expression |-> [c \in Calls |-> NoTask],
                 call |-> [c \in Calls |-> IdleCall]]

Entered(c) == [setting |-> lib.setting, cronTask |-> lib.cronTask]

\* stopScheduler: if (cronTask) { cronTask.stop(); cronTask = null }
Stopped(l) == [l EXCEPT !.active = l.active \ {l.cronTask}, !.cronTask = 0]

\* startScheduler up to `await loadConfig()`: the duplicate-start guard
CronStartScheduler(c) ==
    /\ lib.fn = "cron"
    /\ lib.call[c].pc = "idle"
    /\ lib' = IF lib.schedulerInitialized /\ lib.cronTask # 0
              THEN [lib EXCEPT !.call[c].op = "startScheduler",
                               !.call[c].before = Entered(c),
                               !.call[c].pc = "returned"]
              ELSE [lib EXCEPT !.call[c].op = "startScheduler",
                               !.call[c].before = Entered(c),
                               !.schedulerInitialized = TRUE,
                               !.call[c].pc = "startLoad"]
    /\ UNCHANGED processVars

\* loadConfig of startScheduler reads the row
CronLoadConfig(c) ==
    /\ lib.fn = "cron"
    /\ lib.call[c].pc = "startLoad"
    /\ lib' = [lib EXCEPT !.call[c].config = LoadConfig(lib.setting),
                          !.call[c].pc = "startLoaded"]
    /\ UNCHANGED processVars

\* startScheduler after the await: disabled or invalid returns, otherwise
\* stopScheduler() and cron.schedule(config.cronExpression, ...).start()
CronSchedule(c) ==
    /\ lib.fn = "cron"
    /\ lib.call[c].pc = "startLoaded"
    /\ LET config == lib.call[c].config IN
       lib' = IF config.enabled /\ Validate(config.cronExpression)
              THEN [Stopped(lib) EXCEPT
                       !.cronTask = c,
                       !.active = Stopped(lib).active \cup {c},
                       !.expression[c] = config.cronExpression,
                       !.call[c].pc = "returned"]
              ELSE [lib EXCEPT !.call[c].pc = "returned"]
    /\ UNCHANGED processVars

\* updateConfig(updates) up to `await loadConfig()`
CronUpdateConfig(c) ==
    /\ lib.fn = "cron"
    /\ lib.call[c].pc = "idle"
    /\ \E updates \in Updates :
          lib' = [lib EXCEPT !.call[c].op = "updateConfig",
                             !.call[c].before = Entered(c),
                             !.call[c].updates = updates,
                             !.call[c].pc = "updateLoad"]
    /\ UNCHANGED processVars

\* loadConfig of updateConfig reads the row
CronUpdateLoaded(c) ==
    /\ lib.fn = "cron"
    /\ lib.call[c].pc = "updateLoad"
    /\ lib' = [lib EXCEPT !.call[c].config = LoadConfig(lib.setting),
                          !.call[c].pc = "updateSave"]
    /\ UNCHANGED processVars

\* newConfig = { ...config, ...updates }; saveConfig(newConfig): the upsert,
\* or 'Database Error' thrown out of updateConfig
CronUpdateSave(c) ==
    /\ lib.fn = "cron"
    /\ lib.call[c].pc = "updateSave"
    /\ LET newConfig == Merge(lib.call[c].config, lib.call[c].updates) IN
       \E ok \in BOOLEAN :
          lib' = IF ok
                 THEN [lib EXCEPT !.setting = newConfig,
                                  !.call[c].newConfig = newConfig,
                                  !.call[c].pc = "updateRestart"]
                 ELSE [lib EXCEPT !.call[c].newConfig = newConfig,
                                  !.call[c].pc = "threw"]
    /\ UNCHANGED processVars

\* restartScheduler: stopScheduler(); schedulerInitialized = false; then
\* startScheduler up to its await (the guard cannot hold)
CronUpdateRestart(c) ==
    /\ lib.fn = "cron"
    /\ lib.call[c].pc = "updateRestart"
    /\ lib' = [Stopped(lib) EXCEPT !.schedulerInitialized = TRUE,
                                   !.call[c].pc = "startLoad"]
    /\ UNCHANGED processVars

CallStep(c) ==
    \/ CronStartScheduler(c)
    \/ CronLoadConfig(c)
    \/ CronSchedule(c)
    \/ CronUpdateConfig(c)
    \/ CronUpdateLoaded(c)
    \/ CronUpdateSave(c)
    \/ CronUpdateRestart(c)

InCall(c) == lib.call[c].pc \notin {"idle", "returned", "threw"}

\* one call at a time
CronSeqNext ==
    \E c \in Calls : (\A d \in Calls \ {c} : ~InCall(d)) /\ CallStep(c)

CronSeqSpec == CronInit /\ [][CronSeqNext]_vars

\* calls of concurrent requests
CronNext == \E c \in Calls : CallStep(c)

CronSpec == CronInit /\ [][CronNext]_vars

UpdateReturns(c) ==
    /\ lib.fn = "cron"
    /\ lib.call[c].op = "updateConfig"
    /\ lib.call[c].pc # "returned"
    /\ lib'.call[c].pc = "returned"

\* what the persisted config prescribes: 0 for no task
Prescribed(setting, task, expression) ==
    LET config == LoadConfig(setting) IN
    IF config.enabled /\ config.cronExpression.fields \in {5, 6}
          /\ config.cronExpression.wellFormed
    THEN task # 0 /\ expression[task] = config.cronExpression
    ELSE task = 0

C32_CronRegistrationConsistent ==
    lib.fn = "cron" =>
        /\ Cardinality(lib.active) <= 1
        /\ (\A c \in Calls : ~InCall(c))
              => /\ lib.active = {lib.cronTask} \ {0}
                 /\ (\E c \in Calls : lib.call[c].pc = "returned")
                       => Prescribed(lib.setting, lib.cronTask, lib.expression)


(***************************************************************************)
(* Cache store calls that raise.  A call of prisma.dataCache may reject;   *)
(* the model follows one caller at a time through loadSalesCache (the      *)
(* inventory reader), fetchAllSalesData without force (load, fetch, save,  *)
(* return) and the commit of executeSyncJob (saveSalesCache,               *)
(* saveWarehouseStockCache, SUCCESS).  Data is identified by a number,     *)
(* 0 standing for null / no row.                                           *)
(***************************************************************************)
MaxData == 2

IOCallers == {"loadSalesCache", "fetchAllSalesData", "executeSyncJob"}

\* loadSalesCache: try { findUnique ... return map } catch { return null }
LoadOrNullMutant(row, raises) == row

LoadOrNull(row, raises) == IF raises THEN 0 ELSE row

\* saveSalesCache / saveWarehouseStockCache: try { upsert } catch { warn }:
\* how the call ends for its caller
SaveOutcomeMutant(raises) == IF raises THEN "threw" ELSE "returned"

SaveOutcome(raises) == "returned"

\* the row after the upsert
Upserted(row, data, raises) == IF raises THEN row ELSE data

IOInit ==
    /\ AtRest
    /\ \E sales \in 0..MaxData, wh \in 0..MaxData :
          lib = [fn |-> "cacheIO", store |-> [sales |-> sales, wh |-> wh],
                 caller |-> "none", pc |-> "idle", raised |-> {},
                 result |-> 0, fetched |-> 0, returned |-> 0,
                 warnings |-> 0, attempt |-> 0, log |-> "NONE"]

IOCall ==
    /\ lib.fn = "cacheIO" /\ lib.pc = "idle"
    /\ \E caller \in IOCallers :
          lib' = [lib EXCEPT
                    !.caller = caller,
                    !.pc = IF caller = "executeSyncJob" THEN "fetch" ELSE "load",
                    !.attempt = IF caller = "executeSyncJob" THEN 1 ELSE 0,
                    !.log = IF caller = "executeSyncJob" THEN "RUNNING" ELSE "NONE"]
    /\ UNCHANGED processVars

\* loadSalesCache; fetchAllSalesData returns the cached map when there is one
IOLoadSalesCache ==
    /\ lib.fn = "cacheIO" /\ lib.pc = "load"
    /\ \E raises \in BOOLEAN :
         LET cached == LoadOrNull(lib.store.sales, raises) IN
         lib' = [lib EXCEPT
                   !.result = cached,
                   !.raised = IF raises THEN @ \cup {"load"} ELSE @,
                   !.warnings = IF raises THEN @ + 1 ELSE @,
                   !.returned = IF lib.caller = "loadSalesCache" \/ cached # 0
                                THEN cached ELSE @,
                   !.pc = IF lib.caller = "loadSalesCache" \/ cached # 0
                          THEN "done" ELSE "fetch"]
    /\ UNCHANGED processVars

\* listing, details and aggregation: the data now in memory
IOFetch ==
    /\ lib.fn = "cacheIO" /\ lib.pc = "fetch"
    /\ \E data \in 1..MaxData :
          lib' = [lib EXCEPT !.fetched = data, !.pc = "saveSales"]
    /\ UNCHANGED processVars

\* catch (err) of the retry loop of executeSyncJob
IOJobCatch(l) == [l EXCEPT !.attempt = @ + 1, !.log = "RETRYING", !.pc = "fetch"]

\* saveSalesCache(fromDate, salesMap, branchId), then
\* fetchAllSalesData returns { salesMap, ... }
IOSaveSalesCache ==
    /\ lib.fn = "cacheIO" /\ lib.pc = "saveSales"
    /\ lib.attempt < MAX_RETRIES
    /\ \E raises \in BOOLEAN :
         LET saved == [lib EXCEPT
                         !.store.sales = Upserted(@, lib.fetched, raises),
                         !.raised = IF raises THEN @ \cup {"saveSales"} ELSE @,
                         !.warnings = IF raises THEN @ + 1 ELSE @]
         IN lib' = IF SaveOutcome(raises) = "threw"
                   THEN IF lib.caller = "executeSyncJob" THEN IOJobCatch(saved)
                        ELSE [saved EXCEPT !.pc = "threw"]
                   ELSE IF lib.caller = "executeSyncJob"
                        THEN [saved EXCEPT !.pc = "saveWarehouse"]
                        ELSE [saved EXCEPT !.returned = lib.fetched,
                                           !.pc = "done"]
    /\ UNCHANGED processVars

\* saveWarehouseStockCache(warehouseStockMap); updateLogEntry(logId,
\* 'SUCCESS', msg); return
IOSaveWarehouseStockCache ==
    /\ lib.fn = "cacheIO" /\ lib.pc = "saveWarehouse"
    /\ \E raises \in BOOLEAN :
         LET saved == [lib EXCEPT
                         !.store.wh = Upserted(@, lib.fetched, raises),
                         !.raised = IF raises THEN @ \cup {"saveWarehouse"} ELSE @,
                         !.warnings = IF raises THEN @ + 1 ELSE @]
         IN lib' = IF SaveOutcome(raises) = "threw"
                   THEN IOJobCatch(saved)
                   ELSE [saved EXCEPT !.log = "SUCCESS",
                                      !.returned = lib.fetched,
                                      !.pc = "done"]
    /\ UNCHANGED processVars

IONext ==
    \/ IOCall
    \/ IOLoadSalesCache
    \/ IOFetch
    \/ IOSaveSalesCache
    \/ IOSaveWarehouseStockCache

IOSpec == IOInit /\ [][IONext]_vars

\* C33: a read that raises is a miss and nothing propagates; a write that
\* raises is logged and does not propagate, the data fetched in memory is
\* still returned, and the job is neither failed nor retried for it.
C33_CacheFailuresAreSoft ==
    lib.fn = "cacheIO" =>
        /\ lib.pc # "threw"
        /\ lib.warnings >= Cardinality(lib.raised)
        /\ "load" \in lib.raised => lib.result = 0
        /\ (lib.caller = "loadSalesCache" /\ "load" \in lib.raised
                /\ lib.pc = "done") => lib.returned = 0
        /\ (lib.caller = "fetchAllSalesData" /\ "load" \in lib.raised
                /\ lib.pc = "done") => lib.returned = lib.fetched /\ lib.fetched # 0
        /\ (lib.caller = "fetchAllSalesData" /\ "saveSales" \in lib.raised)
              => lib.pc = "done" /\ lib.returned = lib.fetched
        /\ lib.caller = "executeSyncJob"
              => /\ lib.attempt = 1
                 /\ lib.log \in {"RUNNING", "SUCCESS"}
                 /\ lib.pc = "done" => lib.log = "SUCCESS"

C33_Witness ==
    /\ lib.fn = "cacheIO"
    /\ lib.caller = "executeSyncJob"
    /\ lib.raised = {"saveSales", "saveWarehouse"}
    /\ lib.pc = "done"
    /\ lib.log = "SUCCESS"
    /\ lib.store.sales # lib.fetched

C33_ReadWitness ==
    /\ lib.fn = "cacheIO"
    /\ lib.caller = "fetchAllSalesData"
    /\ lib.raised = {"load", "saveSales"}
    /\ lib.store.sales # 0
    /\ lib.pc = "done"


(***************************************************************************)
(* Conversion ratio and sales unit name in the aggregation loop of         *)
(* fetchAllSalesData: the two fields of an item's entry that are assigned, *)
(* not summed.  One step is one detail line, in processing order.          *)
(***************************************************************************)
MaxLines == 3

UnitLines ==
    [itemNo : {1, 2},
     qty : { [quantity |-> 1, quantityInBase |-> 6], [quantity |-> 3, quantityInBase |-> 0],
             [quantity |-> 2, quantityInBase |-> 3], [quantity |-> 3, quantityInBase |-> 1],
             [quantity |-> 0, quantityInBase |-> 6] },
     itemUnitName : {"", "BOX"}] \cup
    [itemNo : {1},
     qty : {[quantity |-> 2, quantityInBase |-> 3]},
     itemUnitName : {"PCS"}]

\* Math.round(a / b) for b > 0
MathRound(a, b) == (2 * a + b) \div (2 * b)

\* (qtyBox > 0 && qtyPcs !== qtyBox) ? Math.round(qtyPcs / qtyBox) : 0
ConvRatio(d) ==
    LET qtyPcs == OrElse(d.qty.quantityInBase, d.qty.quantity)
        qtyBox == d.qty.quantity
    IN IF qtyBox > 0 /\ qtyPcs # qtyBox THEN MathRound(qtyPcs, qtyBox) ELSE 0

\* if (convRatio > 0) entry.unitConversion = convRatio
UnitConversionMutant(unitConversion, convRatio) == convRatio

UnitConversion(unitConversion, convRatio) ==
    IF convRatio > 0 THEN convRatio ELSE unitConversion

\* if (unitName) entry.salesUnitName = unitName
SalesUnitName(salesUnitName, unitName) ==
    IF unitName # "" THEN unitName ELSE salesUnitName

NewUnits == [unitConversion |-> 0, salesUnitName |-> ""]

AddUnits(map, d) ==
    LET entry == IF d.itemNo \in DOMAIN map THEN map[d.itemNo] ELSE NewUnits
        updated == [unitConversion |->
                        UnitConversion(entry.unitConversion, ConvRatio(d)),
                    salesUnitName |->
                        SalesUnitName(entry.salesUnitName, d.itemUnitName)]
    IN [i \in DOMAIN map \cup {d.itemNo} |->
           IF i = d.itemNo THEN updated ELSE map[i]]

UnitInit ==
    /\ AtRest
    /\ \E n \in 0..MaxLines :
         \E lines \in [1..n -> UnitLines] :
            lib = [fn |-> "units", lines |-> lines, idx |-> 0,
                   salesMap |-> << >>]

AggregateUnits ==
    /\ lib.fn = "units"
    /\ lib.idx < Len(lib.lines)
    /\ lib' = [lib EXCEPT !.idx = @ + 1,
                          !.salesMap = AddUnits(@, lib.lines[lib.idx + 1])]
    /\ UNCHANGED processVars

UnitNext == AggregateUnits

UnitSpec == UnitInit /\ [][UnitNext]_vars

\* the ratio a line supplies: round(qtyBase / qtySalesUnit), 0 for none
Supplied(d) ==
    LET base == IF d.qty.quantityInBase # 0 THEN d.qty.quantityInBase
                ELSE d.qty.quantity
        unit == d.qty.quantity
    IN IF unit > 0 /\ base # unit THEN (2 * base + unit) \div (2 * unit) ELSE 0

\* the lines of item i among the first n that supplied a ratio / a name
RatioLines(i, n) ==
    {k \in 1..n : lib.lines[k].itemNo = i /\ Supplied(lib.lines[k]) > 0}

NameLines(i, n) ==
    {k \in 1..n : lib.lines[k].itemNo = i /\ lib.lines[k].itemUnitName # ""}

Last(S) == CHOOSE k \in S : \A j \in S : j <= k

\* C34: after any number of lines the ratio of an item is the one supplied
\* by the last of its lines whose two quantities differ with a positive
\* sales-unit quantity (0 while there was none), its unit name the last
\* non-empty one; a line never turns a non-zero ratio into 0.
C34_LastNonEmptyWins ==
    /\ [](lib.fn = "units" =>
            \A i \in DOMAIN lib.salesMap :
               /\ lib.salesMap[i].unitConversion =
                     IF RatioLines(i, lib.idx) = {} THEN 0
                     ELSE Supplied(lib.lines[Last(RatioLines(i, lib.idx))])
               /\ lib.salesMap[i].salesUnitName =
                     IF NameLines(i, lib.idx) = {} THEN ""
                     ELSE lib.lines[Last(NameLines(i, lib.idx))].itemUnitName)
    /\ [][\A i \in DOMAIN lib.salesMap :
            lib.salesMap[i].unitConversion # 0
               => lib'.salesMap[i].unitConversion # 0]_vars

C34_Witness ==
    /\ lib.fn = "units"
    /\ lib.idx = 3
    /\ \A k \in 1..3 : lib.lines[k].itemNo = 1
    /\ Supplied(lib.lines[1]) = 6
    /\ Supplied(lib.lines[2]) = 2
    /\ lib.lines[3].qty = [quantity |-> 3, quantityInBase |-> 1]
    /\ lib.lines[3].itemUnitName = ""
    /\ lib.salesMap[1].unitConversion = 2
    /\ lib.salesMap[1].salesUnitName = "PCS"


(***************************************************************************)
(* fetchAllSOData(force = true): fetchSOList keeps the listed orders that  *)
(* pass the exclusion list and the caller's status filter, the details of  *)
(* the kept ids are fetched, and the details are saved as the SO cache.    *)
(* An order has the status the listing reported and the status its detail  *)
(* carries; the two differ when the order changed in between.              *)
(***************************************************************************)
MaxSOs == 2

EXCLUDE_STATUSES == {"draf", "draft", "ditutup", "closed", "void", "batal"}

SOStatusNames ==
    { [word |-> "ditutup", form |-> "capital"],
      [word |-> "closed", form |-> "upper"],
      [word |-> "draf", form |-> "padded"],
      [word |-> "void", form |-> "plain"],
      [word |-> "dipesan", form |-> "capital"],
      [word |-> "menunggu diproses", form |-> "plain"] }

\* the `statuses` argument: none, or a list of status names
StatusFilters == { {}, {"dipesan"}, {"ditutup", "dipesan"} }

SalesOrders == [listed : SOStatusNames, detailed : SOStatusNames]

SOInit ==
    /\ AtRest
    /\ \E n \in 0..MaxSOs :
         \E orders \in [1..n -> SalesOrders], statuses \in StatusFilters :
            lib = [fn |-> "so", pc |-> "list", orders |-> orders,
                   statuses |-> statuses, allSOs |-> {}, soData |-> << >>,
                   cache |-> [present |-> FALSE, data |-> << >>]]

\* the body of list.forEach in fetchSOList
Listed(so, includeStatuses) ==
    LET status == Normalised(so.listed).word IN
    /\ status \notin EXCLUDE_STATUSES
    /\ (includeStatuses # {} => status \in includeStatuses)

\* fetchSOList returns
SOListDone ==
    /\ lib.fn = "so" /\ lib.pc = "list"
    /\ LET kept == {id \in DOMAIN lib.orders :
                      Listed(lib.orders[id], lib.statuses)}
       IN lib' = [lib EXCEPT !.allSOs = kept,
                             !.pc = IF kept = {} THEN "save" ELSE "details"]
    /\ UNCHANGED processVars

\* the ids in ascending order
RECURSIVE IdSeq(_)
IdSeq(ids) ==
    IF ids = {} THEN << >>
    ELSE LET id == CHOOSE x \in ids : \A y \in ids : x <= y
         IN <<id>> \o IdSeq(ids \ {id})

\* fetchSODetailsInBatch returns the details: statusName: d.statusName || ''
SODetailsDone ==
    /\ lib.fn = "so" /\ lib.pc = "details"
    /\ LET ids == IdSeq(lib.allSOs)
       IN lib' = [lib EXCEPT
                    !.soData = [k \in DOMAIN ids |->
                                   [id |-> ids[k],
                                    statusName |-> lib.orders[ids[k]].detailed]],
                    !.pc = "save"]
    /\ UNCHANGED processVars

\* saveSOCache(soData) (saveSOCache([]) when nothing was listed)
SOSave ==
    /\ lib.fn = "so" /\ lib.pc = "save"
    /\ \E ok \in BOOLEAN :
          lib' = [lib EXCEPT
                    !.cache = IF ok THEN [present |-> TRUE, data |-> lib.soData]
                              ELSE @,
                    !.pc = "done"]
    /\ UNCHANGED processVars

SONext ==
    \/ SOListDone
    \/ SODetailsDone
    \/ SOSave

SOSpec == SOInit /\ [][SONext]_vars

\* C35: no order whose status is closed, void or draft, in any spelling or
\* case, is in the SO result written to the cache, whatever the status
\* filter, and also when only the fetched detail carries the closed status.
C35_ClosedOrdersNeverCached ==
    lib.fn = "so" =>
        \A k \in DOMAIN lib.cache.data :
            Normalised(lib.cache.data[k].statusName).word
                \notin {"draf", "draft", "ditutup", "closed", "void", "batal"}


\* ---------------------------------------------------------------------------
\* Progress callback of the batch runners (fetchDetailsInBatch,
\* fetchWarehouseStock, fetchPODetailsInBatch, fetchSODetailsInBatch), checked
\* under BatchSpec with a caller that passes onProgress.

\* main-pass batches completed so far
BatchesDone(l) ==
    IF l.pass = "called" \/ l.n = 0 THEN 0
    ELSE IF l.pass = "main" THEN l.i \div l.batchSize
    ELSE (l.n + l.batchSize - 1) \div l.batchSize

\* C36: during a batch run over N ids with batch size B the callback is
\* invoked exactly once after each main-pass batch, in batch order, with
\* total = N and done = min(k * B, N) at the k-th invocation (none in the retry
\* pass, none when N = 0); done is strictly increasing, never exceeds total and
\* equals total at the last invocation of a finished run.
C36_ProgressCallback ==
    lib.fn = "batch" =>
        /\ Len(lib.progress) = BatchesDone(lib)
        /\ \A k \in 1..Len(lib.progress) :
              /\ lib.progress[k].total = lib.n
              /\ \/ lib.progress[k].done = k * lib.batchSize /\ k * lib.batchSize <= lib.n
                 \/ lib.progress[k].done = lib.n /\ k * lib.batchSize > lib.n
              /\ lib.progress[k].done <= lib.progress[k].total
              /\ k > 1 => lib.progress[k - 1].done < lib.progress[k].done
        /\ lib.pass \in {"sleep", "retry", "returned"} /\ lib.n > 0 =>
              lib.progress[Len(lib.progress)].done = lib.n

\* a finished invoice run of three ids in batches of two, whose last batch is
\* short and whose retry pass recovered a record: two invocations, (2,3), (3,3)
C36_Witness ==
    /\ lib.fn = "batch" /\ lib.pass = "returned" /\ lib.domain = "invoice"
    /\ lib.n = 3 /\ lib.batchSize = 2 /\ lib.recovered > 0
    /\ lib.progress = <<[done |-> 2, total |-> 3], [done |-> 3, total |-> 3]>>

\* ---------------------------------------------------------------------------
\* Per-branch sales entries: fetchAllSalesData called by executeSyncPhases
\* (skipCacheOps = true, the job saves afterwards) and by the manual sync
\* endpoint (skipCacheOps = false, the function clears and saves itself).
\* A cache row is the number of the run that wrote it, 0 when absent.

\* sync runs in a behaviour
MaxRuns == 2
\* invoices a run lists
MaxRunInvoices == 2

Runs == 1..MaxRuns

SyncCallers == {"executeSyncJob", "POST /api/sync"}

\* inv.branchId of the invoices of a run (0: an invoice without a branch); a
\* listing scoped to one branch returns invoices of that branch only
RunInvoices(branchId) ==
    {inv \in UNION {[1..n -> 0..MaxBranch] : n \in 0..MaxRunInvoices} :
        Truthy(branchId) => \A x \in DOMAIN inv : inv[x] = branchId}

SalesKeys == {GetCacheKey(1, b) : b \in BranchArgs}

\* if (!branchId && invBranchId): the branches that get a per-branch map
BranchSalesMaps(branchId, invoices) ==
    IF Truthy(branchId) THEN {}
    ELSE {invoices[x] : x \in {y \in DOMAIN invoices : Truthy(invoices[y])}}

NewRun(run, rows) ==
    UNION {{[fn |-> "branchSync", run |-> run, caller |-> c, branchId |-> b,
             invoices |-> inv, pc |-> "fetch", branchSalesMaps |-> {},
             cache |-> rows] : c \in SyncCallers, inv \in RunInvoices(b)} :
           b \in BranchArgs}

BranchSyncInit ==
    /\ AtRest
    /\ lib \in NewRun(1, [k \in SalesKeys |-> 0])

\* fetchAllSalesData(fromDate, true, branchId, skipCacheOps) to its return:
\* clear, list, fetch, aggregate and, unless skipCacheOps, save the combined
\* map and every per-branch map
BranchFetchAllSalesData ==
    /\ lib.fn = "branchSync" /\ lib.pc = "fetch"
    /\ LET skipCacheOps == lib.caller = "executeSyncJob"
           maps == BranchSalesMaps(lib.branchId, lib.invoices)
           written == {GetCacheKey(1, lib.branchId)}
                          \cup {GetCacheKey(1, b) : b \in maps}
       IN lib' = [lib EXCEPT
                    !.branchSalesMaps = maps,
                    !.pc = IF skipCacheOps THEN "fetched" ELSE "done",
                    !.cache = IF skipCacheOps THEN @
                              ELSE [k \in SalesKeys |->
                                       IF k \in written THEN lib.run ELSE @[k]]]
    /\ UNCHANGED processVars

\* the listing or a detail fetch throws: a force sync that manages the cache
\* itself has already cleared its entry
BranchFetchFails ==
    /\ lib.fn = "branchSync" /\ lib.pc = "fetch"
    /\ lib' = [lib EXCEPT
                 !.pc = "failed",
                 !.cache = IF lib.caller = "executeSyncJob" THEN @
                           ELSE [@ EXCEPT ![GetCacheKey(1, lib.branchId)] = 0]]
    /\ UNCHANGED processVars

\* a later phase of executeSyncPhases throws: nothing is written
BranchLaterPhaseFails ==
    /\ lib.fn = "branchSync" /\ lib.pc = "fetched"
    /\ lib' = [lib EXCEPT !.pc = "failed"]
    /\ UNCHANGED processVars

\* executeSyncJob: await saveSalesCache(fromDate, result.salesMap, branchId)
BranchJobSave ==
    /\ lib.fn = "branchSync" /\ lib.pc = "fetched"
    /\ lib' = [lib EXCEPT !.pc = "done",
                          !.cache[GetCacheKey(1, lib.branchId)] = lib.run]
    /\ UNCHANGED processVars

\* the next cron fire or POST
BranchNextRun ==
    /\ lib.fn = "branchSync" /\ lib.pc \in {"done", "failed"}
    /\ lib.run < MaxRuns
    /\ lib' \in NewRun(lib.run + 1, lib.cache)
    /\ UNCHANGED processVars

BranchSyncNext ==
    \/ BranchFetchAllSalesData
    \/ BranchFetchFails
    \/ BranchLaterPhaseFails
    \/ BranchJobSave
    \/ BranchNextRun

BranchSyncSpec == BranchSyncInit /\ [][BranchSyncNext]_vars

\* C37: after a successful all-branch sync job run by executeSyncJob the cache
\* holds, for every branch that had an invoice in the run, a per-branch sales
\* entry that is present and not older than the combined entry.
C37_BranchEntriesCommittedWithCombined ==
    (/\ lib.fn = "branchSync" /\ lib.caller = "executeSyncJob"
     /\ lib.pc = "done" /\ ~Truthy(lib.branchId)) =>
        \A b \in 1..MaxBranch :
            (\E x \in DOMAIN lib.invoices : lib.invoices[x] = b) =>
                /\ lib.cache[GetCacheKey(1, b)] # 0
                /\ lib.cache[GetCacheKey(1, b)] >= lib.cache[GetCacheKey(1, Undefined)]

\* ---------------------------------------------------------------------------
\* One sales run from the listing to the aggregate: fetchInvoiceList pushes
\* every row of every page, fetchDetailsInBatch fetches one detail per listed
\* id, and invoices.forEach of fetchAllSalesData adds every fetched record.

\* invoices the remote system holds
MaxRemote == 2
\* rows the listing returns in total
MaxListed == 3

RemoteIds == 1..MaxRemote

InvoiceRunInit ==
    /\ AtRest
    /\ \E remote \in [RemoteIds -> InvoiceRecords] :
         lib = [fn |-> "invoiceRun", remote |-> remote, pc |-> "listing",
                allInvoices |-> <<>>, invoices |-> <<>>, idx |-> 0,
                maps |-> [salesMap |-> << >>, branchSalesMaps |-> << >>]]

\* list.forEach(inv => allInvoices.push(...)): a row of a page.  Pages are cut
\* by position, so a row already returned comes back on the next page when the
\* remote data shifted between the two requests.
InvoiceListRow ==
    /\ lib.fn = "invoiceRun" /\ lib.pc = "listing"
    /\ Len(lib.allInvoices) < MaxListed
    /\ \E id \in RemoteIds :
         lib' = [lib EXCEPT !.allInvoices = Append(@, id)]
    /\ UNCHANGED processVars

\* list.length === 0: hasMore = false, fetchInvoiceList returns
InvoiceListEnd ==
    /\ lib.fn = "invoiceRun" /\ lib.pc = "listing"
    /\ lib' = [lib EXCEPT !.pc = "details"]
    /\ UNCHANGED processVars

\* invoiceIds = filteredInvoices.map(inv => inv.id);
\* invoices = await fetchDetailsInBatch(invoiceIds, 20, ...), every fetch
\* succeeding
InvoiceDetailsFetched ==
    /\ lib.fn = "invoiceRun" /\ lib.pc = "details"
    /\ lib' = [lib EXCEPT
                 !.pc = "aggregate",
                 !.invoices = [x \in 1..Len(lib.allInvoices) |->
                                  lib.remote[lib.allInvoices[x]]]]
    /\ UNCHANGED processVars

\* one iteration of invoices.forEach
InvoiceAggregateStep ==
    /\ lib.fn = "invoiceRun" /\ lib.pc = "aggregate"
    /\ lib' = IF lib.idx < Len(lib.invoices)
              THEN [lib EXCEPT !.idx = @ + 1,
                               !.maps = AddInvoice(@, lib.invoices[lib.idx + 1])]
              ELSE [lib EXCEPT !.pc = "done"]
    /\ UNCHANGED processVars

InvoiceRunNext ==
    \/ InvoiceListRow
    \/ InvoiceListEnd
    \/ InvoiceDetailsFetched
    \/ InvoiceAggregateStep

InvoiceRunSpec == InvoiceRunInit /\ [][InvoiceRunNext]_vars

RECURSIVE FirstOccurrences(_)
\* the listed ids without repetitions, in the order they were first listed
FirstOccurrences(ids) ==
    IF ids = <<>> THEN <<>>
    ELSE LET front == [x \in 1..(Len(ids) - 1) |-> ids[x]]
             last == ids[Len(ids)]
         IN IF \E x \in DOMAIN front : front[x] = last
            THEN FirstOccurrences(front)
            ELSE Append(FirstOccurrences(front), last)

RECURSIVE CountedOnce(_, _)
\* the aggregate in which every listed invoice contributes once
CountedOnce(remote, ids) ==
    IF ids = <<>> THEN [salesMap |-> << >>, branchSalesMaps |-> << >>]
    ELSE AddInvoice(CountedOnce(remote, [x \in 1..(Len(ids) - 1) |-> ids[x]]),
                    remote[ids[Len(ids)]])

\* C38: when the listing returns the same invoice id more than once, the line
\* items of that invoice contribute exactly once to the item totals and
\* monthly buckets of the aggregate.
C38_EachInvoiceCountedOnce ==
    (lib.fn = "invoiceRun" /\ lib.pc = "done") =>
        lib.maps = CountedOnce(lib.remote, FirstOccurrences(lib.allInvoices))

\* ---------------------------------------------------------------------------
\* C39: an analysed item whose stock is 0 or negative is never given status
\* OVERSTOCK, whatever its avgDailyUsage (0 included).
C39_ZeroStockNeverOverstock ==
    Responded =>
        \A i \in DOMAIN lib.inventoryItems :
            lib.inventoryItems[i].stock <= 0 =>
                lib.inventoryItems[i].status # "OVERSTOCK"

\* C40: whenever the total annual revenue over all items is positive, the item
\* with the highest annual revenue is classified A, whatever share of the
\* total it holds (of several items that share the highest revenue, one).
C40_TopItemIsClassA ==
    Classified =>
        LET out == lib.inventoryItems
        IN  RevenueUpTo(out, Len(out)) > 0 =>
                \E i \in DOMAIN out :
                    /\ \A j \in DOMAIN out :
                          out[j].annualRevenue <= out[i].annualRevenue
                    /\ out[i].abcClass = "A"
====
